---- MODULE Spec2Model ----
(***************************************************************************)
(* State-machine model of the mythra-program on-chain program              *)
(* (programs/mythra-program/src): events, ticket tiers, tickets, nonces,   *)
(* campaigns, contributions, budgets, votes and the lamport balances the   *)
(* instructions move.                                                      *)
(*                                                                         *)
(* Every instruction is one atomic action.  For an instruction X the       *)
(* operator X_err(...) computes, in the order the program evaluates them   *)
(* (account constraints of the Accounts struct first, then the handler's   *)
(* require! checks and the CPIs), the error the invocation ends with, or   *)
(* Ok.  A failed invocation is rolled back by the runtime and leaves the   *)
(* state unchanged, so only invocations with X_err(...) = Ok are steps.    *)
(*                                                                         *)
(* Integer widths: TLC's integers are 32 bit, so the 64-bit lamport type   *)
(* is modelled by a U64_BITS-bit word (U64_MAX = 2^U64_BITS - 1) and all   *)
(* lamport amounts are in model units; u16 keeps its real width.  The      *)
(* rent paid for creating accounts is not modelled.                        *)
(***************************************************************************)
EXTENDS Integers, Sequences, FiniteSets, TLC

VARIABLES
    now,            \* Clock::get()?.unix_timestamp
    events,         \* Event accounts, keyed by the organizer of the PDA
    tiers,          \* TicketTier accounts, keyed by <<event, tier_id>>
    tickets,        \* Ticket accounts, keyed by mint
    tokenHolder,    \* SPL token state: who holds the single token of a mint
    nonces,         \* Nonce accounts, keyed by <<ticket(mint), nonce_hash>>
    published,      \* check-in authorisations owners have signed off-chain
    campaigns,      \* Campaign accounts, keyed by event
    contributions,  \* Contribution accounts, keyed by <<campaign, contributor>>
    budgets,        \* Budget accounts, keyed by <<campaign, revision seed>>
    votes,          \* BudgetVote accounts, keyed by <<budget key, voter>>
    lamports,       \* lamport balance of wallets and escrow PDAs
    claims,         \* history: successful claim_backer_profit per contribution
    checkin,        \* history: what the last signature-gated check-in relied on
    calc            \* arguments and result of one calculate_share evaluation

vars == <<now, events, tiers, tickets, tokenHolder, nonces, published, campaigns,
          contributions, budgets, votes, lamports, claims, checkin, calc>>

ticketVars == <<tiers, tickets, tokenHolder, nonces, published, checkin>>
crowdVars == <<campaigns, contributions, budgets, votes, claims>>

-----------------------------------------------------------------------------
(* Bounds of the model *)

MaxTime == 4
InitialBalance == 12

Users == {"org", "alice", "bob"}
EventOrganizers == {"org"}
Treasury == "treasury"
NoKey == "11111111"                  \* Pubkey::default()

Ok == "Ok"
Panic == "ProgramFailedToComplete"

-----------------------------------------------------------------------------
(* Integer types *)

U64_BITS == 20
U64_MAX == (2 ^ U64_BITS) - 1
U16_MAX == (2 ^ 16) - 1

BPS_DENOMINATOR == 10000

\* x as u64: truncation of a wider value
AsU64(x) == x % (U64_MAX + 1)

\* a + b on u64 written with a plain + or +=: the build's overflow-checks
\* setting decides whether an overflow panics or wraps, so every instruction
\* that does such an addition takes the setting as an input.
OverflowsU64(a, b) == a + b > U64_MAX
WrappingAddU64(a, b) == AsU64(a + b)

\* a + b on i64 written with a plain +: same build dependence
I64_BITS == 12
I64_MAX == (2 ^ (I64_BITS - 1)) - 1
I64_MIN == -(2 ^ (I64_BITS - 1))
OverflowsI64(a, b) == a + b > I64_MAX \/ a + b < I64_MIN
WrappingAddI64(a, b) == ((a + b - I64_MIN) % (2 ^ I64_BITS)) + I64_MIN

\* iter().sum() of the three u16 release percentages: same build dependence
OverflowsSumU16(s) == s[1] + s[2] + s[3] > U16_MAX
WrappingSumU16(s) == (s[1] + s[2] + s[3]) % (U16_MAX + 1)

-----------------------------------------------------------------------------
(* Accounts holding lamports *)

EventEscrow(e) == <<"escrow", e>>
TicketEscrow(e) == <<"ticket_escrow", e>>
CampaignEscrow(c) == <<"campaign_escrow", c>>
Wallet(u) == <<"wallet", u>>

LamportAccounts ==
    {Wallet(u) : u \in Users \cup {Treasury}}
    \cup {EventEscrow(e) : e \in EventOrganizers}
    \cup {TicketEscrow(e) : e \in EventOrganizers}
    \cup {CampaignEscrow(e) : e \in EventOrganizers}

RentExemptMinimum == 1                    \* Rent::get()?.minimum_balance(0)

\* system_program::transfer: fails when `from` holds less than `amount`
CanTransfer(from, amount) == lamports[from] >= amount

Transferred(bal, from, to, amount) ==
    IF from = to THEN bal
    ELSE [bal EXCEPT ![from] = @ - amount, ![to] = @ + amount]

-----------------------------------------------------------------------------
(* Event *)

MAX_METADATA_URI_LENGTH == 200
UriLenChoices == {10, 201}
SupplyChoices == {0, 2}

EventKey(organizer) == organizer          \* PDA ["event", organizer, event_id]
CampaignKey(e) == e                       \* PDA ["campaign", event]

create_event_err(organizer, uri_len, start_ts, end_ts, total_supply) ==
    IF EventKey(organizer) \in DOMAIN events THEN "AccountAlreadyInUse"
    ELSE IF ~(uri_len <= MAX_METADATA_URI_LENGTH) THEN "MetadataUriTooLong"
    ELSE IF ~(start_ts < end_ts) THEN "InvalidTimestamps"
    ELSE IF ~(total_supply > 0) THEN "ZeroSupply"
    ELSE Ok

NewEvent(organizer, uri_len, start_ts, end_ts, total_supply, platform_split_bps) ==
    [authority |-> organizer,
     metadata_uri |-> uri_len,
     start_ts |-> start_ts,
     end_ts |-> end_ts,
     total_supply |-> total_supply,
     allocated_supply |-> 0,
     treasury |-> Treasury,
     platform_split_bps |-> platform_split_bps,
     canceled |-> FALSE,
     crowdfunding_enabled |-> FALSE,
     campaign |-> {},                     \* Option<Pubkey>: {} is None
     ticket_revenue |-> 0]

create_event(organizer, uri_len, start_ts, end_ts, total_supply, platform_split_bps) ==
    /\ create_event_err(organizer, uri_len, start_ts, end_ts, total_supply) = Ok
    /\ events' = [k \in DOMAIN events \cup {EventKey(organizer)} |->
                    IF k = EventKey(organizer)
                    THEN NewEvent(organizer, uri_len, start_ts, end_ts,
                                  total_supply, platform_split_bps)
                    ELSE events[k]]
    /\ UNCHANGED <<calc, now, ticketVars, crowdVars, lamports>>

-----------------------------------------------------------------------------
(* Campaign *)

MIN_FUNDING_GOAL == 4                     \* 100_000_000 lamports (0.1 SOL), scaled
GoalChoices == {MIN_FUNDING_GOAL - 1, MIN_FUNDING_GOAL, MIN_FUNDING_GOAL + 3}
DeadlineChoices == {0, 1, 2}

\* faulty variants of goal_reached and can_finalize, for sensitivity runs
goal_exceeded(c) == c.total_raised > c.funding_goal
finalize_anytime(c, ts) == TRUE

\* Campaign helper methods

is_active(c) == c.status = "Pending"
goal_reached(c) == c.total_raised >= c.funding_goal

\* faulty variant of deadline_passed, for sensitivity runs
deadline_never_passed(c, ts) == FALSE
deadline_passed(c, ts) == ts > c.deadline

can_finalize(c, ts) == c.status = "Pending" /\ (goal_reached(c) \/ deadline_passed(c, ts))

\* faulty variant of refunds_available, for sensitivity runs
refunds_available_any_status(c) == TRUE
refunds_available(c) == c.status = "Failed"

\* CreateCampaign accounts: event (has_one = authority), campaign (init),
\* organizer (Signer), authority (UncheckedAccount)
create_campaign_err(e, organizer, authority, funding_goal, deadline) ==
    IF e \notin DOMAIN events THEN "AccountNotInitialized"
    ELSE IF CampaignKey(e) \in DOMAIN campaigns THEN "AccountAlreadyInUse"
    ELSE IF events[e].authority # authority THEN "UnauthorizedCampaignAction"
    ELSE IF ~(deadline > now) THEN "DeadlineInPast"
    ELSE IF ~(deadline < events[e].start_ts) THEN "DeadlineAfterEventStart"
    ELSE IF ~(funding_goal >= MIN_FUNDING_GOAL) THEN "InvalidContributionAmount"
    ELSE Ok

NewCampaign(e, organizer, funding_goal, deadline) ==
    [event |-> e,
     organizer |-> organizer,
     funding_goal |-> funding_goal,
     total_raised |-> 0,
     deadline |-> deadline,
     status |-> "Pending",
     total_contributors |-> 0,
     created_at |-> now,
     total_expenses |-> 0,
     total_revenue |-> 0,
     backer_pool |-> 0,
     organizer_pool |-> 0,
     platform_pool |-> 0,
     distribution_complete |-> FALSE,
     organizer_claimed |-> FALSE]

create_campaign(e, organizer, authority, funding_goal, deadline) ==
    /\ create_campaign_err(e, organizer, authority, funding_goal, deadline) = Ok
    /\ campaigns' = [k \in DOMAIN campaigns \cup {CampaignKey(e)} |->
                        IF k = CampaignKey(e)
                        THEN NewCampaign(e, organizer, funding_goal, deadline)
                        ELSE campaigns[k]]
    /\ events' = [events EXCEPT ![e].crowdfunding_enabled = TRUE,
                                ![e].campaign = {CampaignKey(e)}]
    /\ UNCHANGED <<calc, now, ticketVars, contributions, budgets, votes, claims, lamports>>

ContributionKey(c, u) == <<c, u>>         \* PDA ["contribution", campaign, contributor]

contribute_err(c, contributor, amount, overflow_checks) ==
    IF c \notin DOMAIN campaigns THEN "AccountNotInitialized"
    ELSE IF ContributionKey(c, contributor) \in DOMAIN contributions
         THEN "AccountAlreadyInUse"
    ELSE IF ~is_active(campaigns[c]) THEN "CampaignNotActive"
    ELSE IF deadline_passed(campaigns[c], now) THEN "CampaignDeadlinePassed"
    ELSE IF ~(amount > 0) THEN "InvalidContributionAmount"
    ELSE IF ~CanTransfer(Wallet(contributor), amount) THEN "InsufficientFunds"
    ELSE IF overflow_checks /\ OverflowsU64(campaigns[c].total_raised, amount) THEN Panic
    ELSE IF campaigns[c].total_contributors + 1 > U64_MAX THEN "ArithmeticOverflow"
    ELSE Ok

NewContribution(c, contributor, amount) ==
    [campaign |-> c,
     contributor |-> contributor,
     amount |-> amount,
     contributed_at |-> now,
     refunded |-> FALSE,
     profit_share |-> 0,
     profit_claimed |-> FALSE]

contribute(c, contributor, amount, overflow_checks) ==
    /\ contribute_err(c, contributor, amount, overflow_checks) = Ok
    /\ campaigns' = [campaigns EXCEPT
                       ![c].total_raised = WrappingAddU64(@, amount),
                       ![c].total_contributors = @ + 1]
    /\ contributions' =
         [k \in DOMAIN contributions \cup {ContributionKey(c, contributor)} |->
            IF k = ContributionKey(c, contributor)
            THEN NewContribution(c, contributor, amount)
            ELSE contributions[k]]
    /\ lamports' = Transferred(lamports, Wallet(contributor), CampaignEscrow(c), amount)
    /\ UNCHANGED <<calc, now, events, ticketVars, budgets, votes, claims>>

finalize_campaign_err(c) ==
    IF c \notin DOMAIN campaigns THEN "AccountNotInitialized"
    ELSE IF ~can_finalize(campaigns[c], now) THEN "AlreadyFinalized"
    ELSE Ok

finalize_campaign(c) ==
    /\ finalize_campaign_err(c) = Ok
    /\ campaigns' = [campaigns EXCEPT ![c].status =
                        IF goal_reached(campaigns[c]) THEN "Funded" ELSE "Failed"]
    /\ UNCHANGED <<calc, now, events, ticketVars, contributions, budgets, votes, claims, lamports>>

can_refund(k) == ~contributions[k].refunded

\* faulty variant of saturating_sub, for sensitivity runs
KeepMinuend(a, b) == a
\* u64::saturating_sub
SaturatingSub(a, b) == IF a >= b THEN a - b ELSE 0

\* ClaimRefund accounts: campaign, contribution (seeds of campaign and
\* contributor, has_one campaign, has_one contributor), campaign_escrow,
\* contributor (Signer)
claim_refund_err(c, contributor) ==
    IF c \notin DOMAIN campaigns THEN "AccountNotInitialized"
    ELSE IF ContributionKey(c, contributor) \notin DOMAIN contributions
         THEN "AccountNotInitialized"
    ELSE IF ~refunds_available(campaigns[c]) THEN "CannotRefundFundedCampaign"
    ELSE IF ~can_refund(ContributionKey(c, contributor)) THEN "ContributionAlreadyRefunded"
    ELSE IF contributions[ContributionKey(c, contributor)].contributor # contributor
         THEN "UnauthorizedCampaignAction"
    ELSE IF ~CanTransfer(CampaignEscrow(c),
                         contributions[ContributionKey(c, contributor)].amount)
         THEN "InsufficientFunds"
    ELSE Ok

claim_refund(c, contributor) ==
    LET k == ContributionKey(c, contributor)
        refund_amount == contributions[k].amount
    IN  /\ claim_refund_err(c, contributor) = Ok
        /\ lamports' = Transferred(lamports, CampaignEscrow(c), Wallet(contributor),
                                   refund_amount)
        /\ contributions' = [contributions EXCEPT ![k].refunded = TRUE]
        /\ campaigns' = [campaigns EXCEPT ![c].total_raised =
                            SaturatingSub(@, refund_amount)]
        /\ UNCHANGED <<calc, now, events, ticketVars, budgets, votes, claims>>

-----------------------------------------------------------------------------
(* Budget *)

MAX_DESCRIPTION_LEN == 200
MAX_MILESTONE_DESC_LEN == 100

BudgetKey(c) == <<c, 0>>                  \* PDA ["budget", campaign]
RevisionKey(c, n) == <<c, n>>             \* PDA ["budget_revision", campaign, [n]]
VoteKey(b, voter) == <<b, voter>>         \* PDA ["budget_vote", budget, voter]

MilestoneInput(desc_len, pct, unlock_date) ==
    [description |-> desc_len, release_percentage |-> pct, unlock_date |-> unlock_date]

Percentages(ms) == [i \in 1..3 |-> ms[i].release_percentage]

\* faulty variant of voting_ended, for sensitivity runs
voting_never_ended(b, ts) == FALSE
voting_ended(b, ts) == ts >= b.voting_end
\* faulty variant of is_approved, for sensitivity runs
is_approved_on_tie(b) == b.votes_for >= b.votes_against /\ b.votes_for > 0
is_approved(b) == b.votes_for > b.votes_against /\ b.votes_for > 0
\* faulty variant of can_revise, for sensitivity runs
can_revise_any_status(b) == b.revision_count < 2
can_revise(b) == b.status = "Rejected" /\ b.revision_count < 2
\* faulty variant of is_unlocked, for sensitivity runs
is_unlocked_any_time(m, ts) == ~m.released
is_unlocked(m, ts) == ts >= m.unlock_date /\ ~m.released

NewMilestone(input) ==
    [description |-> input.description,
     release_percentage |-> input.release_percentage,
     unlock_date |-> input.unlock_date,
     released |-> FALSE,
     released_amount |-> 0]

NewBudget(c, total_amount, desc_len, ms, voting_period_seconds, revision_count) ==
    [campaign |-> c,
     total_amount |-> total_amount,
     description |-> desc_len,
     milestones |-> [i \in 1..3 |-> NewMilestone(ms[i])],
     status |-> "Pending",
     voting_end |-> WrappingAddI64(now, voting_period_seconds),
     votes_for |-> 0,
     votes_against |-> 0,
     revision_count |-> revision_count,
     created_at |-> now]

\* the argument checks submit_budget and revise_budget share
budget_args_err(c, total_amount, desc_len, ms, overflow_checks) ==
    IF ~(total_amount <= campaigns[c].total_raised) THEN "BudgetExceedsFunds"
    ELSE IF ~(desc_len <= MAX_DESCRIPTION_LEN) THEN "BudgetDescriptionTooLong"
    ELSE IF ~(Len(ms) = 3) THEN "InvalidMilestonePercentages"
    ELSE IF overflow_checks /\ OverflowsSumU16(Percentages(ms)) THEN Panic
    ELSE IF ~(WrappingSumU16(Percentages(ms)) = BPS_DENOMINATOR)
         THEN "InvalidMilestonePercentages"
    ELSE IF \E i \in 1..3 : ~(ms[i].description <= MAX_MILESTONE_DESC_LEN)
         THEN "MilestoneDescriptionTooLong"
    ELSE Ok

\* SubmitBudget accounts: campaign (has_one = organizer), budget (init),
\* organizer (Signer)
submit_budget_err(c, organizer, total_amount, desc_len, ms, overflow_checks) ==
    IF c \notin DOMAIN campaigns THEN "AccountNotInitialized"
    ELSE IF campaigns[c].organizer # organizer THEN "UnauthorizedCampaignAction"
    ELSE IF BudgetKey(c) \in DOMAIN budgets THEN "AccountAlreadyInUse"
    ELSE IF ~(campaigns[c].status = "Funded") THEN "CampaignNotFunded"
    ELSE budget_args_err(c, total_amount, desc_len, ms, overflow_checks)

submit_budget(c, organizer, total_amount, desc_len, ms, voting_period_seconds, overflow_checks) ==
    /\ submit_budget_err(c, organizer, total_amount, desc_len, ms, overflow_checks) = Ok
    /\ ~(overflow_checks /\ OverflowsI64(now, voting_period_seconds))   \* panics
    /\ budgets' = [k \in DOMAIN budgets \cup {BudgetKey(c)} |->
                     IF k = BudgetKey(c)
                     THEN NewBudget(c, total_amount, desc_len, ms,
                                    voting_period_seconds, 0)
                     ELSE budgets[k]]
    /\ UNCHANGED <<calc, now, events, ticketVars, campaigns, contributions, votes, claims,
                   lamports>>

\* ReviseBudget accounts: campaign (has_one = organizer), old_budget (seeds
\* ["budget", campaign]), new_budget (init, seeds ["budget_revision",
\* campaign, [old_budget.revision_count + 1]]), organizer (Signer)
revise_budget_err(c, organizer, total_amount, desc_len, ms, overflow_checks) ==
    IF c \notin DOMAIN campaigns THEN "AccountNotInitialized"
    ELSE IF campaigns[c].organizer # organizer THEN "UnauthorizedCampaignAction"
    ELSE IF BudgetKey(c) \notin DOMAIN budgets THEN "AccountNotInitialized"
    ELSE IF RevisionKey(c, budgets[BudgetKey(c)].revision_count + 1) \in DOMAIN budgets
         THEN "AccountAlreadyInUse"
    ELSE IF ~can_revise(budgets[BudgetKey(c)]) THEN "CannotReviseBudget"
    ELSE IF ~(budgets[BudgetKey(c)].revision_count < 2) THEN "MaxRevisionsReached"
    ELSE budget_args_err(c, total_amount, desc_len, ms, overflow_checks)

revise_budget(c, organizer, total_amount, desc_len, ms, voting_period_seconds, overflow_checks) ==
    LET old_budget == budgets[BudgetKey(c)]
        new_key == RevisionKey(c, old_budget.revision_count + 1)
    IN  /\ revise_budget_err(c, organizer, total_amount, desc_len, ms,
                             overflow_checks) = Ok
        /\ ~(overflow_checks /\ OverflowsI64(now, voting_period_seconds))   \* panics
        /\ budgets' = [k \in DOMAIN budgets \cup {new_key} |->
                         IF k = new_key
                         THEN NewBudget(c, total_amount, desc_len, ms,
                                        voting_period_seconds,
                                        old_budget.revision_count + 1)
                         ELSE budgets[k]]
        /\ UNCHANGED <<calc, now, events, ticketVars, campaigns, contributions, votes,
                       claims, lamports>>

\* VoteOnBudget accounts: budget, campaign, contribution (seeds of campaign
\* and voter, has_one = campaign), vote (init), voter (Signer)
vote_on_budget_err(b, c, voter, approve, overflow_checks) ==
    IF b \notin DOMAIN budgets \/ c \notin DOMAIN campaigns THEN "AccountNotInitialized"
    ELSE IF ContributionKey(c, voter) \notin DOMAIN contributions
         THEN "AccountNotInitialized"
    ELSE IF contributions[ContributionKey(c, voter)].campaign # c THEN "ConstraintHasOne"
    ELSE IF VoteKey(b, voter) \in DOMAIN votes THEN "AccountAlreadyInUse"
    ELSE IF ~(budgets[b].status = "Pending") THEN "BudgetNotPending"
    ELSE IF voting_ended(budgets[b], now) THEN "VotingPeriodEnded"
    ELSE IF ~(contributions[ContributionKey(c, voter)].campaign = budgets[b].campaign)
         THEN "NotAContributor"
    ELSE IF overflow_checks
            /\ OverflowsU64(IF approve THEN budgets[b].votes_for
                            ELSE budgets[b].votes_against,
                            contributions[ContributionKey(c, voter)].amount)
         THEN Panic
    ELSE Ok

vote_on_budget(b, c, voter, approve, overflow_checks) ==
    LET voting_power == contributions[ContributionKey(c, voter)].amount
    IN  /\ vote_on_budget_err(b, c, voter, approve, overflow_checks) = Ok
        /\ votes' = [k \in DOMAIN votes \cup {VoteKey(b, voter)} |->
                       IF k = VoteKey(b, voter)
                       THEN [budget |-> b, voter |-> voter,
                             contribution_amount |-> voting_power,
                             approve |-> approve, voted_at |-> now]
                       ELSE votes[k]]
        /\ budgets' = IF approve
                      THEN [budgets EXCEPT ![b].votes_for =
                                WrappingAddU64(@, voting_power)]
                      ELSE [budgets EXCEPT ![b].votes_against =
                                WrappingAddU64(@, voting_power)]
        /\ UNCHANGED <<calc, now, events, ticketVars, campaigns, contributions, claims,
                       lamports>>

finalize_budget_vote_err(b) ==
    IF b \notin DOMAIN budgets THEN "AccountNotInitialized"
    ELSE IF ~(budgets[b].status = "Pending") THEN "BudgetNotPending"
    ELSE IF ~voting_ended(budgets[b], now) THEN "VotingPeriodNotEnded"
    ELSE Ok

finalize_budget_vote(b) ==
    /\ finalize_budget_vote_err(b) = Ok
    /\ budgets' = [budgets EXCEPT ![b].status =
                      IF is_approved(budgets[b]) THEN "Approved" ELSE "Rejected"]
    /\ UNCHANGED <<calc, now, events, ticketVars, campaigns, contributions, votes, claims,
                   lamports>>

\* (total_amount as u128 * release_percentage as u128 / 10_000) as u64
ReleaseAmount(total_amount, release_percentage) ==
    AsU64((total_amount * release_percentage) \div BPS_DENOMINATOR)

\* ReleaseMilestone accounts: event, campaign (has_one = event, has_one =
\* organizer), budget (seeds ["budget", campaign], has_one = campaign),
\* campaign_escrow, organizer (Signer).  milestone_index is 0-based.
release_milestone_err(e, c, organizer, milestone_index, overflow_checks) ==
    IF e \notin DOMAIN events \/ c \notin DOMAIN campaigns THEN "AccountNotInitialized"
    ELSE IF campaigns[c].event # e THEN "ConstraintHasOne"
    ELSE IF campaigns[c].organizer # organizer THEN "UnauthorizedCampaignAction"
    ELSE IF BudgetKey(c) \notin DOMAIN budgets THEN "AccountNotInitialized"
    ELSE IF budgets[BudgetKey(c)].campaign # c THEN "ConstraintHasOne"
    ELSE IF ~(budgets[BudgetKey(c)].status = "Approved") THEN "BudgetNotApproved"
    ELSE IF ~(milestone_index < 3) THEN "MilestoneNotReady"
    ELSE LET m == budgets[BudgetKey(c)].milestones[milestone_index + 1]
             release_amount == ReleaseAmount(budgets[BudgetKey(c)].total_amount,
                                             m.release_percentage)
         IN  IF ~is_unlocked(m, now) THEN "MilestoneNotReady"
             ELSE IF m.released THEN "MilestoneAlreadyReleased"
             ELSE IF ~CanTransfer(CampaignEscrow(c), release_amount)
                  THEN "InsufficientFunds"
             ELSE IF overflow_checks
                     /\ OverflowsU64(campaigns[c].total_expenses, release_amount)
                  THEN Panic
             ELSE Ok

\* faulty variant of release_milestone (the budget stays Approved), for
\* sensitivity runs
release_milestone_stays_approved(e, c, organizer, milestone_index, overflow_checks) ==
    LET b == BudgetKey(c)
        i == milestone_index + 1
        release_amount == ReleaseAmount(budgets[b].total_amount,
                                        budgets[b].milestones[i].release_percentage)
    IN  /\ release_milestone_err(e, c, organizer, milestone_index, overflow_checks) = Ok
        /\ lamports' = Transferred(lamports, CampaignEscrow(c), Wallet(organizer),
                                   release_amount)
        /\ budgets' = [budgets EXCEPT
                         ![b].milestones[i].released = TRUE,
                         ![b].milestones[i].released_amount = release_amount]
        /\ campaigns' = [campaigns EXCEPT ![c].total_expenses =
                            WrappingAddU64(@, release_amount)]
        /\ UNCHANGED <<calc, now, events, ticketVars, contributions, votes, claims>>

release_milestone(e, c, organizer, milestone_index, overflow_checks) ==
    LET b == BudgetKey(c)
        i == milestone_index + 1
        release_amount == ReleaseAmount(budgets[b].total_amount,
                                        budgets[b].milestones[i].release_percentage)
        all_released == \A j \in 1..3 : j = i \/ budgets[b].milestones[j].released
    IN  /\ release_milestone_err(e, c, organizer, milestone_index, overflow_checks) = Ok
        /\ lamports' = Transferred(lamports, CampaignEscrow(c), Wallet(organizer),
                                   release_amount)
        /\ budgets' = [budgets EXCEPT
                         ![b].milestones[i].released = TRUE,
                         ![b].milestones[i].released_amount = release_amount,
                         ![b].status = IF all_released THEN "Executed" ELSE @]
        /\ campaigns' = [campaigns EXCEPT ![c].total_expenses =
                            WrappingAddU64(@, release_amount)]
        /\ UNCHANGED <<calc, now, events, ticketVars, contributions, votes, claims>>

-----------------------------------------------------------------------------
(* Profit distribution *)

CheckedOverflow(x) == x > U64_MAX         \* checked_add / checked_mul return None

\* CalculateDistribution accounts: campaign (status == Funded), event
\* (event.key() == campaign.event, event.campaign == Some(campaign)),
\* authority (any Signer)
\* faulty variant of the checks of calculate_distribution (the event need not
\* have ended), for sensitivity runs
calculate_distribution_err_any_time(c, e) ==
    IF c \notin DOMAIN campaigns \/ e \notin DOMAIN events THEN "AccountNotInitialized"
    ELSE IF ~(campaigns[c].status = "Funded") THEN "CampaignNotFunded"
    ELSE IF ~(e = campaigns[c].event) THEN "InvalidEvent"
    ELSE Ok

calculate_distribution_err(c, e) ==
    IF c \notin DOMAIN campaigns \/ e \notin DOMAIN events THEN "AccountNotInitialized"
    ELSE IF ~(campaigns[c].status = "Funded") THEN "CampaignNotFunded"
    ELSE IF ~(e = campaigns[c].event) THEN "InvalidEvent"
    ELSE IF ~(events[e].campaign = {c}) THEN "InvalidCampaign"
    ELSE IF ~(now > events[e].end_ts) THEN "EventNotEnded"
    ELSE IF campaigns[c].distribution_complete THEN "DistributionAlreadyComplete"
    ELSE IF events[e].ticket_revenue > campaigns[c].total_expenses
            /\ CheckedOverflow((events[e].ticket_revenue - campaigns[c].total_expenses) * 60)
         THEN "ArithmeticOverflow"
    ELSE Ok

\* faulty variant of calculate_distribution (the rounding remainder is
\* dropped), for sensitivity runs
calculate_distribution_no_remainder(c, e) ==
    LET revenue == events[e].ticket_revenue
        expenses == campaigns[c].total_expenses
        profit == IF revenue > expenses THEN revenue - expenses ELSE 0
    IN  /\ calculate_distribution_err(c, e) = Ok
        /\ campaigns' = [campaigns EXCEPT
                           ![c].total_revenue = revenue,
                           ![c].backer_pool = (profit * 60) \div 100,
                           ![c].organizer_pool = (profit * 35) \div 100,
                           ![c].platform_pool = (profit * 5) \div 100,
                           ![c].distribution_complete = TRUE,
                           ![c].status = "Completed"]
        /\ UNCHANGED <<calc, now, events, ticketVars, contributions, budgets, votes, claims,
                       lamports>>

calculate_distribution(c, e) ==
    LET revenue == events[e].ticket_revenue
        expenses == campaigns[c].total_expenses
        profit == revenue - expenses
        backer_pool == (profit * 60) \div 100
        organizer_pool == (profit * 35) \div 100
        platform_pool == (profit * 5) \div 100
        distributed == backer_pool + organizer_pool + platform_pool
        remainder == profit - distributed
    IN  /\ calculate_distribution_err(c, e) = Ok
        /\ campaigns' =
             IF revenue > expenses
             THEN [campaigns EXCEPT
                     ![c].total_revenue = revenue,
                     ![c].backer_pool = backer_pool + remainder,
                     ![c].organizer_pool = organizer_pool,
                     ![c].platform_pool = platform_pool,
                     ![c].distribution_complete = TRUE,
                     ![c].status = "Completed"]
             ELSE [campaigns EXCEPT
                     ![c].total_revenue = revenue,
                     ![c].backer_pool = 0,
                     ![c].organizer_pool = 0,
                     ![c].platform_pool = 0,
                     ![c].distribution_complete = TRUE,
                     ![c].status = "Completed"]
        /\ UNCHANGED <<calc, now, events, ticketVars, contributions, budgets, votes, claims,
                       lamports>>

\* faulty variant of calculate_share (rounds up), for sensitivity runs
calculate_share_rounded_up(amount, pool_amount, total_raised) ==
    IF total_raised = 0 THEN 0
    ELSE AsU64((amount * pool_amount + total_raised - 1) \div total_raised)

\* Contribution::calculate_share: the u128 quotient is cast back with `as u64`
calculate_share(amount, pool_amount, total_raised) ==
    IF total_raised = 0 THEN 0
    ELSE AsU64((amount * pool_amount) \div total_raised)

\* ClaimBackerProfit accounts: campaign (distribution_complete, status ==
\* Completed), contribution (campaign, contributor and !profit_claimed
\* constraints), campaign_escrow, contributor (Signer).  k is the
\* contribution account passed in.
claim_backer_profit_err(c, k, contributor) ==
    IF c \notin DOMAIN campaigns \/ k \notin DOMAIN contributions
    THEN "AccountNotInitialized"
    ELSE IF ~campaigns[c].distribution_complete THEN "DistributionNotComplete"
    ELSE IF ~(campaigns[c].status = "Completed") THEN "InvalidCampaignStatus"
    ELSE IF ~(contributions[k].campaign = c) THEN "InvalidContribution"
    ELSE IF ~(contributions[k].contributor = contributor) THEN "UnauthorizedClaim"
    ELSE IF contributions[k].profit_claimed THEN "ProfitAlreadyClaimed"
    ELSE LET share == calculate_share(contributions[k].amount,
                                      campaigns[c].backer_pool,
                                      campaigns[c].total_raised)
         IN  IF share > 0 /\ ~(lamports[CampaignEscrow(c)] >= share)
             THEN "InsufficientBalance"
             ELSE Ok

\* faulty variant of claim_backer_profit (profit_claimed is not set), for
\* sensitivity runs
claim_backer_profit_unmarked(c, k, contributor) ==
    LET share == calculate_share(contributions[k].amount, campaigns[c].backer_pool,
                                 campaigns[c].total_raised)
    IN  /\ claim_backer_profit_err(c, k, contributor) = Ok
        /\ contributions' = [contributions EXCEPT ![k].profit_share = share]
        /\ lamports' = IF share > 0
                       THEN Transferred(lamports, CampaignEscrow(c),
                                        Wallet(contributor), share)
                       ELSE lamports
        /\ claims' = [claims EXCEPT ![k] = @ + 1]
        /\ claims[k] < 2
        /\ UNCHANGED <<calc, now, events, ticketVars, campaigns, budgets, votes>>

claim_backer_profit(c, k, contributor) ==
    LET share == calculate_share(contributions[k].amount, campaigns[c].backer_pool,
                                 campaigns[c].total_raised)
    IN  /\ claim_backer_profit_err(c, k, contributor) = Ok
        /\ contributions' = [contributions EXCEPT ![k].profit_share = share,
                                                  ![k].profit_claimed = TRUE]
        /\ lamports' = IF share > 0
                       THEN Transferred(lamports, CampaignEscrow(c),
                                        Wallet(contributor), share)
                       ELSE lamports
        /\ claims' = [claims EXCEPT ![k] = @ + 1]
        /\ UNCHANGED <<calc, now, events, ticketVars, campaigns, budgets, votes>>

\* ClaimOrganizerProfit accounts: campaign (has_one = organizer,
\* distribution_complete, status == Completed, !organizer_claimed),
\* campaign_escrow, organizer (Signer)
claim_organizer_profit_err(c, organizer) ==
    IF c \notin DOMAIN campaigns THEN "AccountNotInitialized"
    ELSE IF campaigns[c].organizer # organizer THEN "UnauthorizedClaim"
    ELSE IF ~campaigns[c].distribution_complete THEN "DistributionNotComplete"
    ELSE IF ~(campaigns[c].status = "Completed") THEN "InvalidCampaignStatus"
    ELSE IF campaigns[c].organizer_claimed THEN "OrganizerAlreadyClaimed"
    ELSE IF campaigns[c].organizer_pool > 0
            /\ ~(lamports[CampaignEscrow(c)] >= campaigns[c].organizer_pool)
         THEN "InsufficientBalance"
    ELSE Ok

\* faulty variant of claim_organizer_profit (organizer_claimed is not set),
\* for sensitivity runs
claim_organizer_profit_unmarked(c, organizer) ==
    LET organizer_share == campaigns[c].organizer_pool
    IN  /\ claim_organizer_profit_err(c, organizer) = Ok
        /\ lamports' = IF organizer_share > 0
                       THEN Transferred(lamports, CampaignEscrow(c),
                                        Wallet(organizer), organizer_share)
                       ELSE lamports
        /\ UNCHANGED <<calc, now, events, ticketVars, campaigns, contributions, budgets,
                       votes, claims>>

claim_organizer_profit(c, organizer) ==
    LET organizer_share == campaigns[c].organizer_pool
    IN  /\ claim_organizer_profit_err(c, organizer) = Ok
        /\ campaigns' = [campaigns EXCEPT ![c].organizer_claimed = TRUE]
        /\ lamports' = IF organizer_share > 0
                       THEN Transferred(lamports, CampaignEscrow(c),
                                        Wallet(organizer), organizer_share)
                       ELSE lamports
        /\ UNCHANGED <<calc, now, events, ticketVars, contributions, budgets, votes, claims>>

-----------------------------------------------------------------------------
(* Ticket tiers and tickets *)

U32_BITS == 10
U32_MAX == (2 ^ U32_BITS) - 1

Mints == {"m1", "m2"}
TierIds == {"t1"}

TierKey(e, tier_id) == <<e, tier_id>>     \* PDA ["tier", event, tier_id]
TicketKey(mint) == mint                   \* PDA ["ticket", mint]

\* SPL token state of the ticket NFTs: the token account of `owner` for `mint`
TokenAccount(mint, owner) == <<mint, owner>>
TokenAccounts == Mints \X Users
TokenAmount(ta) == IF tokenHolder[ta[1]] = ta[2] THEN 1 ELSE 0
MintSupply(mint) == IF tokenHolder[mint] = NoKey THEN 0 ELSE 1

\* faulty variant of is_available, for sensitivity runs
is_available_when_full(t) == t.current_supply <= t.max_supply
is_available(t) == t.current_supply < t.max_supply

\* CreateTicketTier accounts: event (has_one = authority), tier (init),
\* authority (Signer)
create_ticket_tier_err(e, tier_id, authority, uri_len, price_lamports, max_supply) ==
    IF e \notin DOMAIN events THEN "AccountNotInitialized"
    ELSE IF events[e].authority # authority THEN "UnauthorizedTierCreation"
    ELSE IF TierKey(e, tier_id) \in DOMAIN tiers THEN "AccountAlreadyInUse"
    ELSE IF ~(uri_len <= MAX_METADATA_URI_LENGTH) THEN "MetadataUriTooLong"
    ELSE IF ~(price_lamports > 0) THEN "InvalidPrice"
    ELSE IF events[e].allocated_supply + max_supply > U32_MAX THEN "ExceedsTotalSupply"
    ELSE IF ~(events[e].allocated_supply + max_supply <= events[e].total_supply)
         THEN "ExceedsTotalSupply"
    ELSE Ok

create_ticket_tier(e, tier_id, authority, uri_len, price_lamports, max_supply, royalty_bps, tier_index, resale_enabled) ==
    /\ create_ticket_tier_err(e, tier_id, authority, uri_len, price_lamports,
                              max_supply) = Ok
    /\ events' = [events EXCEPT ![e].allocated_supply = @ + max_supply]
    /\ tiers' = [k \in DOMAIN tiers \cup {TierKey(e, tier_id)} |->
                   IF k = TierKey(e, tier_id)
                   THEN [event |-> e,
                         price_lamports |-> price_lamports,
                         max_supply |-> max_supply,
                         current_supply |-> 0,
                         metadata_uri |-> uri_len,
                         royalty_bps |-> royalty_bps,
                         resale_enabled |-> resale_enabled,
                         tier_index |-> tier_index]
                   ELSE tiers[k]]
    /\ UNCHANGED <<calc, now, tickets, tokenHolder, nonces, published, checkin, crowdVars,
                   lamports>>

NewTicket(owner, e, t, mint) ==
    [owner |-> owner,
     event |-> e,
     tier |-> t,
     mint |-> mint,
     used |-> FALSE,
     refunded |-> FALSE,
     checked_in_ts |-> 0,
     gate_operator |-> NoKey,
     refund_ts |-> 0]

WithTicket(mint, ticket) ==
    [k \in DOMAIN tickets \cup {TicketKey(mint)} |->
        IF k = TicketKey(mint) THEN ticket ELSE tickets[k]]

\* PurchaseTicket accounts: ticket (init, seeds of mint), event, tier
\* (tier.event == event), mint (unchecked), buyer_token_account (no
\* constraint), ticket_escrow, buyer (Signer)
purchase_ticket_err(mint, e, t, buyer_token_account, buyer) ==
    IF TicketKey(mint) \in DOMAIN tickets THEN "AccountAlreadyInUse"
    ELSE IF e \notin DOMAIN events \/ t \notin DOMAIN tiers THEN "AccountNotInitialized"
    ELSE IF ~(tiers[t].event = e) THEN "UnauthorizedTierCreation"
    ELSE IF ~is_available(tiers[t]) THEN "ExceedsTotalSupply"
    ELSE IF tiers[t].price_lamports > 0
            /\ ~CanTransfer(Wallet(buyer), tiers[t].price_lamports)
         THEN "InsufficientFunds"
    ELSE IF ~(MintSupply(mint) = 1) THEN "InvalidSupply"
    ELSE IF ~(TokenAmount(buyer_token_account) = 1) THEN "TicketNotOwned"
    ELSE IF tiers[t].current_supply + 1 > U32_MAX THEN "ExceedsTotalSupply"
    ELSE IF CheckedOverflow(events[e].ticket_revenue + tiers[t].price_lamports)
         THEN "ArithmeticOverflow"
    ELSE Ok

purchase_ticket(mint, e, t, buyer_token_account, buyer) ==
    /\ purchase_ticket_err(mint, e, t, buyer_token_account, buyer) = Ok
    /\ lamports' = Transferred(lamports, Wallet(buyer), TicketEscrow(e),
                               tiers[t].price_lamports)
    /\ tiers' = [tiers EXCEPT ![t].current_supply = @ + 1]
    /\ tickets' = WithTicket(mint, NewTicket(buyer, e, t, mint))
    /\ events' = [events EXCEPT ![e].ticket_revenue = @ + tiers[t].price_lamports]
    /\ UNCHANGED <<calc, now, tokenHolder, nonces, published, checkin, crowdVars>>

\* RegisterMint accounts: ticket (init), event (has_one = authority), tier
\* (tier.event == event), mint, buyer_token_account (mint, owner, amount
\* constraints), buyer, authority (Signer)
register_mint_err(mint, e, t, buyer, authority) ==
    IF TicketKey(mint) \in DOMAIN tickets THEN "AccountAlreadyInUse"
    ELSE IF e \notin DOMAIN events \/ t \notin DOMAIN tiers THEN "AccountNotInitialized"
    ELSE IF events[e].authority # authority THEN "UnauthorizedTierCreation"
    ELSE IF ~(tiers[t].event = e) THEN "UnauthorizedTierCreation"
    ELSE IF ~(TokenAmount(TokenAccount(mint, buyer)) = 1) THEN "InvalidSupply"
    ELSE IF ~(MintSupply(mint) = 1) THEN "InvalidSupply"
    ELSE IF ~is_available(tiers[t]) THEN "ExceedsTotalSupply"
    ELSE IF tiers[t].current_supply + 1 > U32_MAX THEN "ExceedsTotalSupply"
    ELSE Ok

register_mint(mint, e, t, buyer, authority) ==
    /\ register_mint_err(mint, e, t, buyer, authority) = Ok
    /\ tiers' = [tiers EXCEPT ![t].current_supply = @ + 1]
    /\ tickets' = WithTicket(mint, NewTicket(buyer, e, t, mint))
    /\ UNCHANGED <<calc, now, events, tokenHolder, nonces, published, checkin, crowdVars,
                   lamports>>

\* MarkTicketUsed accounts: ticket (ticket.owner == owner),
\* owner_token_account (mint, owner, amount constraints), owner (Signer),
\* gate_operator
mark_ticket_used_err(mint, owner) ==
    IF TicketKey(mint) \notin DOMAIN tickets THEN "AccountNotInitialized"
    ELSE IF ~(tickets[mint].owner = owner) THEN "UnauthorizedTicketUse"
    ELSE IF ~(TokenAmount(TokenAccount(tickets[mint].mint, owner)) = 1)
         THEN "TicketNotOwned"
    ELSE IF tickets[mint].used THEN "TicketAlreadyUsed"
    ELSE Ok

mark_ticket_used(mint, owner, gate_operator) ==
    /\ mark_ticket_used_err(mint, owner) = Ok
    /\ tickets' = [tickets EXCEPT ![mint].used = TRUE,
                                  ![mint].checked_in_ts = now,
                                  ![mint].gate_operator = gate_operator]
    /\ UNCHANGED <<calc, now, events, tiers, tokenHolder, nonces, published, checkin,
                   crowdVars, lamports>>

\* RefundTicket accounts: ticket, event (key == ticket.event, has_one =
\* authority), tier (key == ticket.tier), escrow, mint, buyer_token_account
\* (mint, owner == ticket.owner, amount == 1), buyer (== ticket.owner),
\* authority (Signer).  The burn CPI names buyer as its authority, so it
\* succeeds only when buyer signed the transaction as well.
refund_ticket_err(mint, e, authority, buyer_signed, refund_amount) ==
    IF TicketKey(mint) \notin DOMAIN tickets \/ e \notin DOMAIN events
    THEN "AccountNotInitialized"
    ELSE IF ~(e = tickets[mint].event) THEN "UnauthorizedRefund"
    ELSE IF events[e].authority # authority THEN "UnauthorizedRefund"
    ELSE IF ~(TokenAmount(TokenAccount(tickets[mint].mint, tickets[mint].owner)) = 1)
         THEN "TicketNotOwned"
    ELSE IF tickets[mint].used THEN "TicketUsedCannotRefund"
    ELSE IF tickets[mint].refunded THEN "AlreadyRefunded"
    ELSE IF ~(now < events[e].start_ts) THEN "EventAlreadyStarted"
    ELSE IF lamports[EventEscrow(e)] < RentExemptMinimum THEN "InsufficientBalance"
    ELSE IF ~(refund_amount <= lamports[EventEscrow(e)] - RentExemptMinimum)
         THEN "InsufficientBalance"
    ELSE IF ~(buyer_signed \/ authority = tickets[mint].owner)
         THEN "MissingRequiredSignature"
    ELSE Ok

\* faulty variant of refund_ticket (the ticket is not marked), for
\* sensitivity runs
refund_ticket_unmarked(mint, e, authority, buyer_signed, refund_amount) ==
    /\ refund_ticket_err(mint, e, authority, buyer_signed, refund_amount) = Ok
    /\ tokenHolder' = [tokenHolder EXCEPT ![mint] = NoKey]
    /\ lamports' = Transferred(lamports, EventEscrow(e), Wallet(tickets[mint].owner),
                               refund_amount)
    /\ UNCHANGED <<calc, now, events, tiers, tickets, nonces, published, checkin,
                   crowdVars>>

refund_ticket(mint, e, authority, buyer_signed, refund_amount) ==
    /\ refund_ticket_err(mint, e, authority, buyer_signed, refund_amount) = Ok
    /\ tokenHolder' = [tokenHolder EXCEPT ![mint] = NoKey]
    /\ lamports' = Transferred(lamports, EventEscrow(e), Wallet(tickets[mint].owner),
                               refund_amount)
    /\ tickets' = [tickets EXCEPT ![mint].refunded = TRUE,
                                  ![mint].refund_ts = now]
    /\ UNCHANGED <<calc, now, events, tiers, nonces, published, checkin, crowdVars>>

NoPrice == -1                             \* sale_price: None

\* TransferTicket accounts: ticket (owner == sender), event, tier
\* (resale_enabled), mint, sender_token_account (amount == 1),
\* recipient_token_account, sender (Signer), recipient, platform_treasury
transfer_ticket_err(mint, sender, recipient, sale_price) ==
    IF TicketKey(mint) \notin DOMAIN tickets THEN "AccountNotInitialized"
    ELSE IF ~(tickets[mint].owner = sender) THEN "InvalidOwner"
    ELSE IF tickets[mint].event \notin DOMAIN events THEN "AccountNotInitialized"
    ELSE IF ~tiers[tickets[mint].tier].resale_enabled THEN "ResaleDisabled"
    ELSE IF ~(TokenAmount(TokenAccount(tickets[mint].mint, sender)) = 1)
         THEN "TicketNotOwned"
    ELSE IF tickets[mint].used THEN "TicketAlreadyUsed"
    ELSE IF tickets[mint].refunded THEN "AlreadyRefunded"
    ELSE IF sale_price # NoPrice /\ tiers[tickets[mint].tier].royalty_bps > 0
            /\ sale_price > 0
         THEN IF CheckedOverflow(sale_price * tiers[tickets[mint].tier].royalty_bps)
              THEN "InvalidPrice"
              ELSE IF ~CanTransfer(Wallet(sender),
                          (sale_price * tiers[tickets[mint].tier].royalty_bps)
                              \div BPS_DENOMINATOR)
                   THEN "InsufficientFunds"
                   ELSE Ok
    ELSE Ok

transfer_ticket(mint, sender, recipient, platform_treasury, sale_price) ==
    LET royalty_bps == tiers[tickets[mint].tier].royalty_bps
        royalty_amount == IF sale_price # NoPrice /\ royalty_bps > 0 /\ sale_price > 0
                          THEN (sale_price * royalty_bps) \div BPS_DENOMINATOR
                          ELSE 0
    IN  /\ transfer_ticket_err(mint, sender, recipient, sale_price) = Ok
        /\ lamports' = Transferred(lamports, Wallet(sender), Wallet(platform_treasury),
                                   royalty_amount)
        /\ tokenHolder' = [tokenHolder EXCEPT ![mint] = recipient]
        /\ tickets' = [tickets EXCEPT ![mint].owner = recipient]
        /\ UNCHANGED <<calc, now, events, tiers, nonces, published, checkin, crowdVars>>

\* UpdateEvent accounts: event (has_one = authority), authority (Signer).
\* Each parameter is an Option: {} is None, {x} is Some(x).
update_event_err(e, authority, metadata_uri, end_ts, platform_split_bps) ==
    IF e \notin DOMAIN events THEN "AccountNotInitialized"
    ELSE IF events[e].authority # authority THEN "UnauthorizedUpdate"
    ELSE IF \E uri_len \in metadata_uri : ~(uri_len <= MAX_METADATA_URI_LENGTH)
         THEN "MetadataUriTooLong"
    ELSE IF \E ts \in end_ts : ~(ts > now) THEN "EndTimestampInPast"
    ELSE IF \E bps \in platform_split_bps : ~(bps <= BPS_DENOMINATOR)
         THEN "InvalidPlatformSplit"
    ELSE Ok

SomeOr(option, default) == IF option = {} THEN default ELSE CHOOSE x \in option : TRUE

update_event(e, authority, metadata_uri, end_ts, platform_split_bps, treasury) ==
    /\ update_event_err(e, authority, metadata_uri, end_ts, platform_split_bps) = Ok
    /\ events' = [events EXCEPT
                    ![e].metadata_uri = SomeOr(metadata_uri, @),
                    ![e].end_ts = SomeOr(end_ts, @),
                    ![e].platform_split_bps = SomeOr(platform_split_bps, @),
                    ![e].treasury = SomeOr(treasury, @)]
    /\ UNCHANGED <<calc, now, ticketVars, crowdVars, lamports>>

\* CloseEvent accounts: event (has_one = authority, close = authority),
\* escrow, authority (Signer)
close_event_err(e, authority) ==
    IF e \notin DOMAIN events THEN "AccountNotInitialized"
    ELSE IF events[e].authority # authority THEN "UnauthorizedUpdate"
    ELSE IF ~(now >= events[e].end_ts) THEN "EventNotEnded"
    ELSE IF ~(lamports[EventEscrow(e)] <= RentExemptMinimum) THEN "OutstandingFunds"
    ELSE Ok

close_event(e, authority) ==
    /\ close_event_err(e, authority) = Ok
    /\ events' = [k \in DOMAIN events \ {e} |-> events[k]]
    /\ UNCHANGED <<calc, now, ticketVars, crowdVars, lamports>>

\* WithdrawFunds accounts: event (has_one = authority, has_one = treasury),
\* escrow, treasury, authority (Signer)
withdraw_funds_err(e, authority, treasury, amount) ==
    IF e \notin DOMAIN events THEN "AccountNotInitialized"
    ELSE IF events[e].authority # authority THEN "UnauthorizedWithdrawal"
    ELSE IF events[e].treasury # treasury THEN "UnauthorizedWithdrawal"
    ELSE IF lamports[EventEscrow(e)] < RentExemptMinimum THEN "InsufficientBalance"
    ELSE IF ~(amount <= lamports[EventEscrow(e)] - RentExemptMinimum)
         THEN "InsufficientBalance"
    ELSE Ok

withdraw_funds(e, authority, treasury, amount) ==
    /\ withdraw_funds_err(e, authority, treasury, amount) = Ok
    /\ lamports' = Transferred(lamports, EventEscrow(e), Wallet(treasury), amount)
    /\ UNCHANGED <<calc, now, events, ticketVars, crowdVars>>

-----------------------------------------------------------------------------
(* Transactions, the instructions sysvar and the ed25519 precompile *)

\* A transaction is a sequence of instructions [program_id, data]; data is a
\* sequence of bytes.  Offsets and instruction indices are 0-based as in the
\* source, sequences are 1-based.
ED25519_PROGRAM == "Ed25519SigVerify111111111111111111111111111"
MYTHRA_PROGRAM == "mythra_program"
OTHER_PROGRAM == "ComputeBudget111111111111111111111111111111"

CURRENT_INSTRUCTION == U16_MAX             \* u16::MAX: "this instruction"

PkByte(u) == CASE u = "org" -> 1 [] u = "alice" -> 2 [] u = "bob" -> 3
               [] OTHER -> 0
Repeat(b, n) == [i \in 1..n |-> b]
PkBytes(u) == Repeat(PkByte(u), 32)       \* Pubkey::to_bytes
HashBytes(h) == Repeat(h, 32)             \* nonce_hash: [u8; 32]
Le16(x) == <<x % 256, (x \div 256) % 256>>
Le64(x) == <<x % 256, (x \div 256) % 256, (x \div 65536) % 256, 0, 0, 0, 0, 0>>
ReadLe16(data, off) == data[off + 1] + 256 * data[off + 2]
Slice(data, from, to) == SubSeq(data, from + 1, to)     \* data[from..to]

\* the message a ticket owner signs to authorise one check-in, padded with
\* zero bytes to `size` bytes
CheckinMessage(h, v, size) == HashBytes(h) \o Le64(v) \o Repeat(0, size - 40)

\* Signatures are abstract: the 64 bytes name the signer, the length and the
\* first 40 bytes of the message.  Only the holder of u's key can produce
\* Signature(u, msg).
Signature(u, msg) ==
    [i \in 1..64 |-> IF i <= 23 THEN PkByte(u)
                     ELSE IF i = 24 THEN Len(msg) % 256
                     ELSE IF i - 24 <= Len(msg) THEN msg[i - 24] ELSE 0]
SignatureValid(pk, msg, sig) ==
    \E u \in Users : pk = PkBytes(u) /\ sig = Signature(u, msg)

\* Header of an ed25519-verify instruction: num_signatures u8, padding u8,
\* then per signature seven u16: signature_offset, signature_instruction_index,
\* public_key_offset, public_key_instruction_index, message_data_offset,
\* message_data_size, message_instruction_index.
Ed25519Offsets(data, j) ==
    [signature_offset |-> ReadLe16(data, 2 + 14 * j),
     signature_instruction_index |-> ReadLe16(data, 4 + 14 * j),
     public_key_offset |-> ReadLe16(data, 6 + 14 * j),
     public_key_instruction_index |-> ReadLe16(data, 8 + 14 * j),
     message_data_offset |-> ReadLe16(data, 10 + 14 * j),
     message_data_size |-> ReadLe16(data, 12 + 14 * j),
     message_instruction_index |-> ReadLe16(data, 14 + 14 * j)]

Ed25519Header(sig_off, pk_off, msg_off, msg_size, msg_ix) ==
    <<1, 0>> \o Le16(sig_off) \o Le16(CURRENT_INSTRUCTION)
             \o Le16(pk_off) \o Le16(CURRENT_INSTRUCTION)
             \o Le16(msg_off) \o Le16(msg_size) \o Le16(msg_ix)

\* the instruction a (offset, instruction_index) pair of the header refers to
ReferredIndex(i, ix_index) == IF ix_index = CURRENT_INSTRUCTION THEN i ELSE ix_index
InRange(tx, i, ix_index, off, size) ==
    /\ ReferredIndex(i, ix_index) < Len(tx)
    /\ off + size <= Len(tx[ReferredIndex(i, ix_index) + 1].data)
Referred(tx, i, ix_index, off, size) ==
    Slice(tx[ReferredIndex(i, ix_index) + 1].data, off, off + size)

VerifiedPubkey(tx, i, o) ==
    Referred(tx, i, o.public_key_instruction_index, o.public_key_offset, 32)
VerifiedMessage(tx, i, o) ==
    Referred(tx, i, o.message_instruction_index, o.message_data_offset,
             o.message_data_size)

\* what the precompile does with instruction i of tx: every signature entry
\* must verify, otherwise the whole transaction is rejected
Ed25519Verifies(tx, i) ==
    LET data == tx[i + 1].data
    IN  /\ Len(data) >= 2
        /\ ~(data[1] = 0 /\ Len(data) > 2)
        /\ Len(data) >= 2 + 14 * data[1]
        /\ \A j \in 0..(data[1] - 1) :
             LET o == Ed25519Offsets(data, j)
             IN  /\ InRange(tx, i, o.signature_instruction_index,
                            o.signature_offset, 64)
                 /\ InRange(tx, i, o.public_key_instruction_index,
                            o.public_key_offset, 32)
                 /\ InRange(tx, i, o.message_instruction_index,
                            o.message_data_offset, o.message_data_size)
                 /\ SignatureValid(
                        VerifiedPubkey(tx, i, o),
                        VerifiedMessage(tx, i, o),
                        Referred(tx, i, o.signature_instruction_index,
                                 o.signature_offset, 64))

TransactionVerifies(tx) ==
    \A i \in 0..(Len(tx) - 1) :
        tx[i + 1].program_id = ED25519_PROGRAM => Ed25519Verifies(tx, i)

\* load_current_index_checked of this program reads bytes 0..2 of the
\* instructions sysvar.  The runtime stores the number of instructions of the
\* transaction there; the index of the executing instruction is in the last
\* two bytes of the sysvar data.
load_current_index_checked(tx, executing_index) == Len(tx) % 65536

\* verify_ed25519_signature(instructions, expected_signer, nonce_hash, nonce_value)
verify_ed25519_signature_err(tx, executing_index, expected_signer, nonce_hash, nonce_value) ==
    LET current_index == load_current_index_checked(tx, executing_index)
        ed25519_ix_index == (current_index - 1) % 256
    IN  IF current_index = 0 THEN "Ed25519InstructionMissing"
        ELSE IF ~(ed25519_ix_index < Len(tx)) THEN "InvalidArgument"
        ELSE LET ix == tx[ed25519_ix_index + 1]
                 message_data_offset == ReadLe16(ix.data, 12)
                 message_data_size == ReadLe16(ix.data, 14)
                 message == Slice(ix.data, message_data_offset,
                                  message_data_offset + message_data_size)
             IN  IF ~(ix.program_id = ED25519_PROGRAM) THEN "Ed25519InstructionMissing"
                 ELSE IF ~(Len(ix.data) >= 112) THEN "InvalidSignature"
                 ELSE IF ~(Slice(ix.data, 16, 48) = PkBytes(expected_signer))
                      THEN "InvalidSignature"
                 ELSE IF ~(message_data_offset + message_data_size <= Len(ix.data))
                      THEN "InvalidSignature"
                 ELSE IF ~(Len(message) >= 40) THEN "InvalidSignature"
                 ELSE IF ~(Slice(message, 0, 32) = HashBytes(nonce_hash))
                      THEN "InvalidSignature"
                 ELSE IF ~(Slice(message, 32, 40) = Le64(nonce_value))
                      THEN "InvalidSignature"
                 ELSE Ok

-----------------------------------------------------------------------------
(* Signature-gated check-in *)

DEFAULT_EXPIRY_SECONDS == 300
\* the nonce an owner signs in the modelled transactions
SignedHash == 7
SignedValue == 258
NonceHashes == {SignedHash, SignedHash + 2}
NonceValues == {SignedValue, SignedValue + 255}
MaxPublished == 1

NonceKey(mint, nonce_hash) == <<mint, nonce_hash>>  \* PDA ["nonce", ticket, nonce_hash]
is_expired(n, current_ts) == current_ts > n.expires_at

\* MarkTicketUsedEd25519 accounts: ticket, nonce (init), payer (Signer),
\* gate_operator, instructions sysvar
mark_ticket_used_ed25519_err(tx, executing_index, mint, nonce_hash, nonce_value) ==
    IF TicketKey(mint) \notin DOMAIN tickets THEN "AccountNotInitialized"
    ELSE IF NonceKey(mint, nonce_hash) \in DOMAIN nonces THEN "AccountAlreadyInUse"
    ELSE IF tickets[mint].used THEN "TicketAlreadyUsed"
    ELSE IF verify_ed25519_signature_err(tx, executing_index, tickets[mint].owner,
                                         nonce_hash, nonce_value) # Ok
         THEN verify_ed25519_signature_err(tx, executing_index, tickets[mint].owner,
                                           nonce_hash, nonce_value)
    ELSE IF is_expired([expires_at |-> now + DEFAULT_EXPIRY_SECONDS], now)
         THEN "NonceExpired"
    ELSE Ok

\* some signature entry of instruction i was verified for the key of `owner`
\* over a message starting with nonce_hash and the little-endian nonce_value
OwnerSignatureVerified(tx, i, owner, nonce_hash, nonce_value) ==
    /\ tx[i + 1].program_id = ED25519_PROGRAM
    /\ Ed25519Verifies(tx, i)
    /\ \E j \in 0..(tx[i + 1].data[1] - 1) :
         LET o == Ed25519Offsets(tx[i + 1].data, j)
         IN  /\ VerifiedPubkey(tx, i, o) = PkBytes(owner)
             /\ o.message_data_size >= 40
             /\ Slice(VerifiedMessage(tx, i, o), 0, 40) =
                   HashBytes(nonce_hash) \o Le64(nonce_value)

\* the key and the message the program reads from instruction i are the key
\* and the message of a signature entry the precompile verified
InspectedIsVerified(tx, i) ==
    LET data == tx[i + 1].data
        offset == ReadLe16(data, 12)
        size == ReadLe16(data, 14)
    IN  /\ tx[i + 1].program_id = ED25519_PROGRAM
        /\ Ed25519Verifies(tx, i)
        /\ \E j \in 0..(data[1] - 1) :
             LET o == Ed25519Offsets(data, j)
             IN  /\ VerifiedPubkey(tx, i, o) = Slice(data, 16, 48)
                 /\ VerifiedMessage(tx, i, o) = Slice(data, offset, offset + size)

\* faulty variant of mark_ticket_used_ed25519, for sensitivity runs: the nonce
\* keeps used = false
mark_ticket_used_ed25519_nonce_unused(tx, executing_index, mint, nonce_hash, nonce_value, payer, gate_operator) ==
    /\ mark_ticket_used_ed25519_err(tx, executing_index, mint, nonce_hash,
                                    nonce_value) = Ok
    /\ tx[executing_index + 1].program_id = MYTHRA_PROGRAM
    /\ TransactionVerifies(tx)
    /\ nonces' = [k \in DOMAIN nonces \cup {NonceKey(mint, nonce_hash)} |->
                    IF k = NonceKey(mint, nonce_hash)
                    THEN [ticket |-> TicketKey(mint),
                          nonce_hash |-> nonce_hash,
                          used |-> FALSE,
                          created_at |-> now,
                          expires_at |-> now + DEFAULT_EXPIRY_SECONDS]
                    ELSE nonces[k]]
    /\ tickets' = [tickets EXCEPT ![mint].used = TRUE,
                                  ![mint].checked_in_ts = now,
                                  ![mint].gate_operator = gate_operator]
    /\ checkin' = [ticket |-> mint,
                   preceding_verified |->
                       /\ executing_index > 0
                       /\ OwnerSignatureVerified(tx, executing_index - 1,
                                                 tickets[mint].owner,
                                                 nonce_hash, nonce_value),
                   inspected_verified |->
                       InspectedIsVerified(tx, (Len(tx) - 1) % 256)]
    /\ UNCHANGED <<calc, now, events, tiers, tokenHolder, published, crowdVars, lamports>>

mark_ticket_used_ed25519(tx, executing_index, mint, nonce_hash, nonce_value, payer, gate_operator) ==
    /\ mark_ticket_used_ed25519_err(tx, executing_index, mint, nonce_hash,
                                    nonce_value) = Ok
    /\ tx[executing_index + 1].program_id = MYTHRA_PROGRAM
    /\ TransactionVerifies(tx)
    /\ nonces' = [k \in DOMAIN nonces \cup {NonceKey(mint, nonce_hash)} |->
                    IF k = NonceKey(mint, nonce_hash)
                    THEN [ticket |-> TicketKey(mint),
                          nonce_hash |-> nonce_hash,
                          used |-> TRUE,
                          created_at |-> now,
                          expires_at |-> now + DEFAULT_EXPIRY_SECONDS]
                    ELSE nonces[k]]
    /\ tickets' = [tickets EXCEPT ![mint].used = TRUE,
                                  ![mint].checked_in_ts = now,
                                  ![mint].gate_operator = gate_operator]
    /\ checkin' = [ticket |-> mint,
                   preceding_verified |->
                       /\ executing_index > 0
                       /\ OwnerSignatureVerified(tx, executing_index - 1,
                                                 tickets[mint].owner,
                                                 nonce_hash, nonce_value),
                   inspected_verified |->
                       InspectedIsVerified(tx, (Len(tx) - 1) % 256)]
    /\ UNCHANGED <<calc, now, events, tiers, tokenHolder, published, crowdVars, lamports>>

\* The transactions a payer can submit.  An ed25519 instruction in the
\* layout the client SDK produces: key at 16, signature at 48, message at 112.
SdkData(signer, h, v) ==
    Ed25519Header(48, 16, 112, 40, CURRENT_INSTRUCTION)
        \o PkBytes(signer)
        \o Signature(signer, CheckinMessage(h, v, 40))
        \o CheckinMessage(h, v, 40)

\* A hand-built layout: key `shown` at 16, a 48-byte message at 48, the
\* signature of `signer` at 96, and the verified key either the one at 16 or
\* the key of `signer` appended at 160
CraftedData(shown, signer, pk_off, h, v, msg_ix) ==
    Ed25519Header(96, pk_off, 48, 48, msg_ix)
        \o PkBytes(shown)
        \o CheckinMessage(h, v, 48)
        \o Signature(signer, CheckinMessage(h, v, 48))
        \o PkBytes(signer)

Filler == [program_id |-> OTHER_PROGRAM, data |-> <<>>]
Checkin == [program_id |-> MYTHRA_PROGRAM, data |-> <<>>]
Ed25519Ix(data) == [program_id |-> ED25519_PROGRAM, data |-> data]

Signers == {"alice", "bob"}

\* each entry: the transaction, the index of the check-in instruction in it,
\* who made the signature it carries and the size of the signed message
Transactions ==
    {[tx |-> <<Ed25519Ix(SdkData(u, SignedHash, SignedValue)), Checkin>>,
      executing_index |-> 1, signer |-> u, size |-> 40] : u \in Signers}
    \cup
    {[tx |-> <<Checkin, Ed25519Ix(SdkData(u, SignedHash, SignedValue))>>,
      executing_index |-> 0, signer |-> u, size |-> 40] : u \in Signers}
    \cup
    {[tx |-> [i \in 1..49 |->
                IF i = 48 THEN Checkin
                ELSE IF i = 49
                THEN Ed25519Ix(CraftedData(l[1], l[2], l[3], SignedHash,
                                           SignedValue, l[4]))
                ELSE Filler],
      executing_index |-> 47, signer |-> l[2], size |-> 48]
        : l \in Signers \X Signers \X {16, 160} \X {48, CURRENT_INSTRUCTION}}

\* a payer holds its own key and the signatures others have handed out
CanProduce(payer, t) ==
    t.signer = payer \/ <<t.signer, SignedHash, SignedValue, t.size>> \in published

\* a ticket holder signs a check-in message off-chain and hands it out
sign_checkin(u, h, v, size) ==
    /\ Cardinality(published) < MaxPublished
    /\ <<u, h, v, size>> \notin published
    /\ published' = published \cup {<<u, h, v, size>>}
    /\ UNCHANGED <<calc, now, events, tiers, tickets, tokenHolder, nonces, checkin, crowdVars,
                   lamports>>

-----------------------------------------------------------------------------
(* Environment *)

\* the clock advances
TickUntil(limit) ==
    /\ now < limit
    /\ now' = now + 1
    /\ UNCHANGED <<calc, events, ticketVars, crowdVars, lamports>>

Tick == TickUntil(MaxTime)

\* a plain system-program transfer from a wallet, e.g. to fund an escrow PDA
system_transfer(from, to, amount) ==
    /\ amount > 0
    /\ CanTransfer(Wallet(from), amount)
    /\ lamports' = Transferred(lamports, Wallet(from), to, amount)
    /\ UNCHANGED <<calc, now, events, ticketVars, crowdVars>>

\* the SPL token program, called by the mint authority outside this program:
\* a mint whose only token was burnt gets a new one, in the account of `owner`
mint_to(mint, owner) ==
    /\ tokenHolder[mint] = NoKey
    /\ tokenHolder' = [tokenHolder EXCEPT ![mint] = owner]
    /\ UNCHANGED <<calc, now, events, tiers, tickets, nonces, published, checkin,
                   crowdVars, lamports>>

Empty == [k \in {} |-> FALSE]

Init ==
    /\ now = 0
    /\ events = Empty
    /\ tiers = Empty
    /\ tickets = Empty
    /\ tokenHolder = [m \in Mints |-> IF m = "m1" THEN "alice" ELSE "bob"]
    /\ nonces = Empty
    /\ published = {}
    /\ campaigns = Empty
    /\ contributions = Empty
    /\ budgets = Empty
    /\ votes = Empty
    /\ lamports = [a \in LamportAccounts |->
                     IF a \in {Wallet(u) : u \in Users} THEN InitialBalance ELSE 0]
    /\ claims = [k \in EventOrganizers \X Users |-> 0]
    /\ checkin = [ticket |-> NoKey, preceding_verified |-> FALSE,
                  inspected_verified |-> FALSE]
    /\ calc = [amount |-> 0, pool_amount |-> 0, total_raised |-> 0,
               share |-> 0, computed |-> FALSE]

-----------------------------------------------------------------------------
(* Crowdfunding: the instructions that read or write campaigns,             *)
(* contributions, budgets and votes, with the ticket sale that produces the *)
(* revenue.                                                                 *)

ContributionChoices == {<<"alice", 4>>, <<"bob", 2>>, <<"bob", 0>>}
CampaignCreators == {"org", "alice"}
TicketPrice == 3
BudgetAmountChoices == {4, 7}
VotingPeriodChoices == {1}
MilestoneChoices ==
    {<<MilestoneInput(10, 5000, 0), MilestoneInput(10, 3000, 0),
       MilestoneInput(10, 2000, 3)>>,
     <<MilestoneInput(10, 5000, 0), MilestoneInput(101, 5000, 0),
       MilestoneInput(10, 5000, 0)>>,
     <<MilestoneInput(10, 5000, 0), MilestoneInput(10, 5000, 0)>>}

NextCrowd ==
    \/ Tick
    \/ \E o \in EventOrganizers, uri \in UriLenChoices, s \in SupplyChoices :
         create_event(o, uri, 2, 3, s, 500)
    \/ \E e \in EventOrganizers, t \in TierIds :
         create_ticket_tier(e, t, "org", 10, TicketPrice, 2, 0, 0, TRUE)
    \/ \E e \in EventOrganizers, t \in TierIds :
         purchase_ticket("m1", e, TierKey(e, t), TokenAccount("m1", "alice"), "alice")
    \/ \E e \in EventOrganizers, organizer \in CampaignCreators, authority \in Users,
          goal \in GoalChoices, deadline \in DeadlineChoices :
         create_campaign(e, organizer, authority, goal, deadline)
    \/ \E c \in EventOrganizers, ca \in ContributionChoices, oc \in BOOLEAN :
         contribute(c, ca[1], ca[2], oc)
    \/ \E c \in EventOrganizers : finalize_campaign(c)
    \/ \E c \in EventOrganizers, u \in Users : claim_refund(c, u)
    \/ \E c \in EventOrganizers, u \in Users, amount \in BudgetAmountChoices,
          desc \in UriLenChoices, ms \in MilestoneChoices,
          period \in VotingPeriodChoices, oc \in BOOLEAN :
         submit_budget(c, u, amount, desc, ms, period, oc)
    \/ \E c \in EventOrganizers, u \in Users, approve \in BOOLEAN, oc \in BOOLEAN :
         vote_on_budget(BudgetKey(c), c, u, approve, oc)
    \/ \E c \in EventOrganizers : finalize_budget_vote(BudgetKey(c))
    \/ \E c \in EventOrganizers, u \in Users, index \in 0..3, oc \in BOOLEAN :
         release_milestone(c, c, u, index, oc)
    \/ \E c \in EventOrganizers : calculate_distribution(c, c)
    \/ \E c \in EventOrganizers, k \in EventOrganizers \X Users, u \in Users :
         claim_backer_profit(c, k, u)
    \/ \E c \in EventOrganizers, u \in Users : claim_organizer_profit(c, u)

SpecCrowd == Init /\ [][NextCrowd]_vars

-----------------------------------------------------------------------------
(* Properties of the crowdfunding instructions *)

Max(a, b) == IF a >= b THEN a ELSE b

RECURSIVE SumAmounts(_)
SumAmounts(ks) ==
    IF ks = {} THEN 0
    ELSE LET k == CHOOSE x \in ks : TRUE
         IN  contributions[k].amount + SumAmounts(ks \ {k})

NonRefunded(c) ==
    {k \in DOMAIN contributions : contributions[k].campaign = c
                                  /\ ~contributions[k].refunded}

\* C2: create_campaign succeeds only for a signer equal to event.authority, so
\* the organizer stored in every campaign is the authority of its event.
C2_OrganizerIsEventAuthority ==
    \A c \in DOMAIN campaigns :
        campaigns[c].organizer = events[campaigns[c].event].authority

\* C4: once distribution_complete, the three pools sum to
\* max(0, total_revenue - total_expenses) of the campaign's current fields.
C4_PoolsEqualProfit ==
    \A c \in DOMAIN campaigns :
        campaigns[c].distribution_complete =>
            campaigns[c].backer_pool + campaigns[c].organizer_pool
                    + campaigns[c].platform_pool
                = Max(0, campaigns[c].total_revenue - campaigns[c].total_expenses)

\* C5: total_raised of every campaign is the sum of the amounts of its
\* contributions that are not refunded.
C5_TotalRaisedIsSum ==
    \A c \in DOMAIN campaigns :
        campaigns[c].total_raised = SumAmounts(NonRefunded(c))

C5_Witness ==
    \E c \in DOMAIN campaigns :
        /\ Cardinality(NonRefunded(c)) = 1
        /\ campaigns[c].total_raised > 0
        /\ \E k \in DOMAIN contributions :
             contributions[k].campaign = c /\ contributions[k].refunded

\* C6: the status of a campaign changes only Pending -> Funded and
\* Pending -> Failed, in a finalize_campaign step, and Funded -> Completed, in
\* a calculate_distribution step; campaigns are never removed.
C6_StatusTransitions ==
    [][\A c \in DOMAIN campaigns :
          /\ c \in DOMAIN campaigns'
          /\ campaigns'[c].status # campaigns[c].status =>
               \/ /\ campaigns[c].status = "Pending"
                  /\ campaigns'[c].status \in {"Funded", "Failed"}
                  /\ finalize_campaign(c)
               \/ /\ campaigns[c].status = "Funded"
                  /\ campaigns'[c].status = "Completed"
                  /\ calculate_distribution(c, campaigns[c].event)]_vars

C6_Witness ==
    \E c \in DOMAIN campaigns :
        /\ campaigns[c].status = "Completed"
        /\ campaigns[c].organizer_claimed
        /\ \E k \in DOMAIN contributions : contributions[k].profit_claimed

\* C7: finalize_campaign succeeds exactly when the campaign is Pending and
\* the goal is reached or the deadline has passed; it then sets Funded if
\* total_raised >= funding_goal and Failed otherwise.
C7_FinalizeCampaign ==
    /\ [](\A c \in DOMAIN campaigns :
            (finalize_campaign_err(c) = Ok) <=>
                /\ campaigns[c].status = "Pending"
                /\ \/ campaigns[c].total_raised >= campaigns[c].funding_goal
                   \/ now > campaigns[c].deadline)
    /\ [][\A c \in DOMAIN campaigns :
            finalize_campaign(c) =>
                campaigns'[c].status =
                    IF campaigns[c].total_raised >= campaigns[c].funding_goal
                    THEN "Funded" ELSE "Failed"]_vars

C7_Witness ==
    \E c \in DOMAIN campaigns :
        /\ campaigns[c].status = "Funded"
        /\ campaigns[c].total_raised = campaigns[c].funding_goal
        /\ now <= campaigns[c].deadline

\* C10: a contribution's backer profit is claimed at most once: after a
\* successful claim every further claim_backer_profit by its contributor
\* ends with ProfitAlreadyClaimed, no signer can claim it, and profit_share
\* keeps the value the claim stored.
C10_ClaimOnce ==
    /\ [](\A k \in DOMAIN contributions :
            /\ claims[k] <= 1
            /\ contributions[k].profit_claimed =>
                 /\ claims[k] = 1
                 /\ claim_backer_profit_err(contributions[k].campaign, k,
                        contributions[k].contributor) = "ProfitAlreadyClaimed"
                 /\ \A u \in Users :
                      claim_backer_profit_err(contributions[k].campaign, k, u) # Ok)
    /\ [][\A k \in DOMAIN contributions :
            contributions[k].profit_claimed =>
                /\ contributions'[k].profit_claimed
                /\ contributions'[k].profit_share = contributions[k].profit_share]_vars

C10_Witness ==
    \E k \in DOMAIN contributions :
        /\ contributions[k].profit_claimed
        /\ contributions[k].profit_share > 0
        /\ lamports[CampaignEscrow(contributions[k].campaign)]
              >= contributions[k].profit_share

RECURSIVE SumShares(_)
SumShares(ks) ==
    IF ks = {} THEN 0
    ELSE LET k == CHOOSE x \in ks : TRUE
         IN  contributions[k].profit_share + SumShares(ks \ {k})

Claimed(c) ==
    {k \in DOMAIN contributions : contributions[k].campaign = c
                                  /\ contributions[k].profit_claimed}

\* floor(amount * backer_pool / total_raised) in unbounded integers, 0 when
\* total_raised is 0
FloorShare(k) ==
    LET c == campaigns[contributions[k].campaign]
    IN  IF c.total_raised = 0 THEN 0
        ELSE (contributions[k].amount * c.backer_pool) \div c.total_raised

\* C11: for every Completed campaign the profit shares of the contributions
\* that have claimed sum to at most backer_pool.
C11_ClaimedSharesWithinPool ==
    \A c \in DOMAIN campaigns :
        campaigns[c].status = "Completed" =>
            SumShares(Claimed(c)) <= campaigns[c].backer_pool

\* two backers have claimed, something was paid and rounding left dust
C11_Witness ==
    \E c \in DOMAIN campaigns :
        /\ campaigns[c].status = "Completed"
        /\ Cardinality(Claimed(c)) = 2
        /\ SumShares(Claimed(c)) > 0
        /\ SumShares(Claimed(c)) < campaigns[c].backer_pool

Pools(c) == <<campaigns[c].backer_pool, campaigns[c].organizer_pool,
              campaigns[c].platform_pool>>

\* C14: calculate_distribution succeeds only on a Funded campaign whose
\* distribution is not complete and whose event has ended (now > end_ts); it
\* sets total_revenue to the event's ticket_revenue, distribution_complete
\* and status Completed; only it sets distribution_complete; afterwards every
\* calculate_distribution on the campaign fails and the pools never change.
C14_DistributionOnce ==
    /\ [][\A c \in DOMAIN campaigns :
            LET e == campaigns[c].event
            IN  /\ calculate_distribution(c, e) =>
                     /\ campaigns[c].status = "Funded"
                     /\ now > events[e].end_ts
                     /\ ~campaigns[c].distribution_complete
                     /\ campaigns'[c].total_revenue = events[e].ticket_revenue
                     /\ campaigns'[c].distribution_complete
                     /\ campaigns'[c].status = "Completed"
                /\ (~campaigns[c].distribution_complete
                        /\ campaigns'[c].distribution_complete)
                     => calculate_distribution(c, e)
                /\ campaigns[c].distribution_complete =>
                     /\ campaigns'[c].distribution_complete
                     /\ Pools(c)' = Pools(c)]_vars
    /\ [](\A c \in DOMAIN campaigns :
            campaigns[c].distribution_complete =>
                /\ campaigns[c].status = "Completed"
                /\ \A e \in DOMAIN events : calculate_distribution_err(c, e) # Ok)

\* a distribution that found a loss, after which the organizer claimed
C14_Witness ==
    \E c \in DOMAIN campaigns :
        /\ campaigns[c].distribution_complete
        /\ campaigns[c].status = "Completed"
        /\ campaigns[c].total_expenses > campaigns[c].total_revenue
        /\ Pools(c) = <<0, 0, 0>>
        /\ campaigns[c].organizer_claimed

-----------------------------------------------------------------------------
(* Ticketing: the instructions that read or write tiers, tickets and nonces *)

MaxTicketTime == 2
SignedChoices == {<<u, SignedHash, SignedValue, size>> :
                     u \in Signers, size \in {40, 48}}

NextTicket ==
    \/ TickUntil(MaxTicketTime)
    \/ \E o \in EventOrganizers : create_event(o, 10, 1, 3, 2, 500)
    \/ \E e \in EventOrganizers, t \in TierIds, u \in {"org", "bob"},
          price \in {0, TicketPrice}, resale \in BOOLEAN :
         create_ticket_tier(e, t, u, 10, price, 2, 500, 0, resale)
    \/ \E e \in EventOrganizers, t \in TierIds, ta \in TokenAccounts :
         purchase_ticket("m1", e, TierKey(e, t), ta, "alice")
    \/ \E e \in EventOrganizers, t \in TierIds, u \in {"org", "bob"} :
         register_mint("m2", e, TierKey(e, t), "bob", u)
    \/ \E sender \in Signers, recipient \in Signers, price \in {NoPrice, 200} :
         transfer_ticket("m1", sender, recipient, Treasury, price)
    \/ \E m \in Mints, u \in {"alice", "bob"} : mark_ticket_used(m, u, "org")
    \/ \E m \in Mints, payer \in Signers, t \in Transactions :
         /\ CanProduce(payer, t)
         /\ \E h \in NonceHashes, v \in NonceValues :
              mark_ticket_used_ed25519(t.tx, t.executing_index, m, h, v, payer, "org")
    \/ \E m \in Mints, e \in EventOrganizers, u \in {"org", "bob"},
          buyer_signed \in BOOLEAN, amount \in {TicketPrice, 8} :
         refund_ticket(m, e, u, buyer_signed, amount)
    \/ \E a \in SignedChoices : sign_checkin(a[1], a[2], a[3], a[4])
    \/ \E e \in EventOrganizers : system_transfer("org", EventEscrow(e), 8)

SpecTicket == Init /\ [][NextTicket]_vars

-----------------------------------------------------------------------------
(* Contribution::calculate_share as a function of its arguments *)

MaxShareAmount == 6
MaxSharePool == 5
MaxShareTotal == 8
\* with pool LargePool and total_raised 2 the quotient of LargeAmount fits
\* the word and the quotient of 2 * LargeAmount does not
LargePool == 2 ^ (U64_BITS \div 2)
LargeAmount == (U64_MAX + 1) \div LargePool

ShareAmounts == 0..MaxShareAmount \cup {LargeAmount, 2 * LargeAmount}
SharePools == 0..MaxSharePool \cup {LargePool}
ShareTotals == 0..MaxShareTotal

InitShare ==
    /\ now = 0
    /\ events = Empty /\ tiers = Empty /\ tickets = Empty /\ nonces = Empty
    /\ campaigns = Empty /\ contributions = Empty /\ budgets = Empty
    /\ votes = Empty
    /\ tokenHolder = [m \in Mints |-> IF m = "m1" THEN "alice" ELSE "bob"]
    /\ published = {}
    /\ lamports = [a \in LamportAccounts |->
                     IF a \in {Wallet(u) : u \in Users} THEN InitialBalance ELSE 0]
    /\ claims = [k \in EventOrganizers \X Users |-> 0]
    /\ checkin = [ticket |-> NoKey, preceding_verified |-> FALSE,
                  inspected_verified |-> FALSE]
    /\ calc \in [amount : ShareAmounts, pool_amount : SharePools,
                 total_raised : ShareTotals, share : {0},
                 computed : {FALSE}]

compute_share ==
    /\ ~calc.computed
    /\ calc' = [calc EXCEPT !.share =
                   calculate_share(calc.amount, calc.pool_amount, calc.total_raised),
                             !.computed = TRUE]
    /\ UNCHANGED <<now, events, ticketVars, crowdVars, lamports>>

NextShare == compute_share

SpecShare == InitShare /\ [][NextShare]_vars

\* C9 as stated: for total_raised > 0 the share never decreases when amount
\* grows, the share of twice the amount is at most twice the share, and the
\* share is the pool when amount = total_raised.
C9_LinearMonotonic ==
    (calc.computed /\ calc.total_raised > 0) =>
        /\ \A a \in ShareAmounts :
             a >= calc.amount =>
                calculate_share(a, calc.pool_amount, calc.total_raised) >= calc.share
        /\ calculate_share(2 * calc.amount, calc.pool_amount, calc.total_raised)
              <= 2 * calc.share
        /\ calc.amount = calc.total_raised => calc.share = calc.pool_amount

\* C9 amended: for amounts up to total_raised (> 0) the share never decreases
\* when amount grows, the share of twice the amount is twice the share or one
\* more, and the share is the pool when amount = total_raised.
C9_FloorMonotonic ==
    (calc.computed /\ calc.total_raised > 0) =>
        /\ \A a \in ShareAmounts :
             (a >= calc.amount /\ a <= calc.total_raised) =>
                calculate_share(a, calc.pool_amount, calc.total_raised) >= calc.share
        /\ 2 * calc.amount <= calc.total_raised =>
             /\ calculate_share(2 * calc.amount, calc.pool_amount, calc.total_raised)
                   >= 2 * calc.share
             /\ calculate_share(2 * calc.amount, calc.pool_amount, calc.total_raised)
                   <= 2 * calc.share + 1
        /\ calc.amount = calc.total_raised => calc.share = calc.pool_amount

C9_Witness ==
    /\ calc.computed
    /\ calc.share > 0
    /\ 2 * calc.amount <= calc.total_raised
    /\ calculate_share(2 * calc.amount, calc.pool_amount, calc.total_raised)
          = 2 * calc.share + 1

-----------------------------------------------------------------------------
(* Milestone release from an approved budget *)

MaxMilestoneTime == 2
RaisedChoices == {MIN_FUNDING_GOAL, 7, InitialBalance}
PercentageChoices ==
    {<<5000, 3000, 2000>>, <<3333, 3333, 3334>>, <<10000, 0, 0>>,
     <<1, 9998, 1>>, <<2500, 2500, 5000>>, <<30000, 30000, 15536>>}

\* The state after create_event, create_campaign (goal MIN_FUNDING_GOAL,
\* deadline 1), contribute(alice, raised), finalize_campaign,
\* submit_budget(total_amount, percentages pcts, voting period 1),
\* vote_on_budget(alice, approve), one tick and finalize_budget_vote.
ApprovedBudgetState(raised, total_amount, pcts) ==
    /\ now = 1
    /\ events = [e \in {"org"} |->
                   [NewEvent("org", 10, 2, 3, 2, 500) EXCEPT
                        !.crowdfunding_enabled = TRUE, !.campaign = {"org"}]]
    /\ campaigns = [c \in {"org"} |->
                      [event |-> "org", organizer |-> "org",
                       funding_goal |-> MIN_FUNDING_GOAL, total_raised |-> raised,
                       deadline |-> 1, status |-> "Funded",
                       total_contributors |-> 1, created_at |-> 0,
                       total_expenses |-> 0, total_revenue |-> 0,
                       backer_pool |-> 0, organizer_pool |-> 0, platform_pool |-> 0,
                       distribution_complete |-> FALSE, organizer_claimed |-> FALSE]]
    /\ contributions = [k \in {ContributionKey("org", "alice")} |->
                          [campaign |-> "org", contributor |-> "alice",
                           amount |-> raised, contributed_at |-> 0,
                           refunded |-> FALSE, profit_share |-> 0,
                           profit_claimed |-> FALSE]]
    /\ budgets = [b \in {BudgetKey("org")} |->
                    [campaign |-> "org", total_amount |-> total_amount,
                     description |-> 10,
                     milestones |-> [i \in 1..3 |->
                         NewMilestone(MilestoneInput(10, pcts[i], i - 1))],
                     status |-> "Approved", voting_end |-> 1,
                     votes_for |-> raised, votes_against |-> 0,
                     revision_count |-> 0, created_at |-> 0]]
    /\ votes = [v \in {VoteKey(BudgetKey("org"), "alice")} |->
                  [budget |-> BudgetKey("org"), voter |-> "alice",
                   contribution_amount |-> raised, approve |-> TRUE,
                   voted_at |-> 0]]
    /\ lamports = [a \in LamportAccounts |->
                     IF a = Wallet("alice") THEN InitialBalance - raised
                     ELSE IF a = CampaignEscrow("org") THEN raised
                     ELSE IF a \in {Wallet(u) : u \in Users} THEN InitialBalance
                     ELSE 0]
    /\ tiers = Empty /\ tickets = Empty /\ nonces = Empty
    /\ tokenHolder = [m \in Mints |-> IF m = "m1" THEN "alice" ELSE "bob"]
    /\ published = {}
    /\ claims = [k \in EventOrganizers \X Users |-> 0]
    /\ checkin = [ticket |-> NoKey, preceding_verified |-> FALSE,
                  inspected_verified |-> FALSE]
    /\ calc = [amount |-> 0, pool_amount |-> 0, total_raised |-> 0,
               share |-> 0, computed |-> FALSE]

InitMilestones ==
    \E raised \in RaisedChoices, pcts \in PercentageChoices :
        \E total_amount \in 0..raised :
            ApprovedBudgetState(raised, total_amount, pcts)

NextMilestones ==
    \/ TickUntil(MaxMilestoneTime)
    \/ \E c \in EventOrganizers, u \in Users, index \in 0..3, oc \in BOOLEAN :
         release_milestone(c, c, u, index, oc)

SpecMilestones == InitMilestones /\ [][NextMilestones]_vars

ReleasedSum(b) ==
    b.milestones[1].released_amount + b.milestones[2].released_amount
        + b.milestones[3].released_amount
PercentageSum(b) ==
    b.milestones[1].release_percentage + b.milestones[2].release_percentage
        + b.milestones[3].release_percentage
AllReleased(b) == \A i \in 1..3 : b.milestones[i].released

\* C8: when the percentages of a budget sum to 10000 and all three milestones
\* are released, the released amounts sum to exactly total_amount.
C8_ReleasedSumExact ==
    \A k \in DOMAIN budgets :
        (PercentageSum(budgets[k]) = BPS_DENOMINATOR /\ AllReleased(budgets[k])) =>
            ReleasedSum(budgets[k]) = budgets[k].total_amount

\* What release_milestone does guarantee: each release is rounded down, so
\* the released amounts sum to at most total_amount and fall short of it by
\* at most 2; the sum is exact when every total_amount * percentage is a
\* multiple of 10000.
ReleasedSumWithinDust ==
    \A k \in DOMAIN budgets :
        (PercentageSum(budgets[k]) = BPS_DENOMINATOR /\ AllReleased(budgets[k])) =>
            /\ ReleasedSum(budgets[k]) <= budgets[k].total_amount
            /\ budgets[k].total_amount - ReleasedSum(budgets[k]) <= 2
            /\ (\A i \in 1..3 :
                    (budgets[k].total_amount
                        * budgets[k].milestones[i].release_percentage)
                            % BPS_DENOMINATOR = 0)
                 => ReleasedSum(budgets[k]) = budgets[k].total_amount

\* an executed budget that left 2 lamports of its total_amount in the escrow
ReleasedSumDustState ==
    \E k \in DOMAIN budgets :
        /\ PercentageSum(budgets[k]) = BPS_DENOMINATOR
        /\ AllReleased(budgets[k])
        /\ budgets[k].status = "Executed"
        /\ budgets[k].total_amount - ReleasedSum(budgets[k]) = 2

-----------------------------------------------------------------------------
(* Profit distribution of a funded campaign whose event has run *)

MaxRevenue == 40
MaxExpenses == 7
\* the largest profit whose product with 60 fits the word, and one beyond it
FittingRevenue == U64_MAX \div 60
LargeRevenue == U64_MAX \div 50
RevenueChoices == 0..MaxRevenue \cup {FittingRevenue, LargeRevenue}

\* The state after create_event(org, start 2, end 3), create_ticket_tier(t1,
\* price revenue), create_campaign(goal MIN_FUNDING_GOAL, deadline 1),
\* contribute(bob, MaxExpenses), finalize_campaign, purchase_ticket(m1,
\* alice), submit_budget(total_amount expenses, 10000/0/0, voting period 1),
\* vote_on_budget(bob, approve), one tick, finalize_budget_vote, the three
\* release_milestone and two more ticks.
EventRunState(revenue, expenses) ==
    /\ now = 3
    /\ events = [e \in {"org"} |->
                   [NewEvent("org", 10, 2, 3, 2, 500) EXCEPT
                        !.crowdfunding_enabled = TRUE, !.campaign = {"org"},
                        !.allocated_supply = 2, !.ticket_revenue = revenue]]
    /\ tiers = [t \in {TierKey("org", "t1")} |->
                  [event |-> "org", price_lamports |-> revenue, max_supply |-> 2,
                   current_supply |-> 1, metadata_uri |-> 10, royalty_bps |-> 0,
                   resale_enabled |-> TRUE, tier_index |-> 0]]
    /\ tickets = [m \in {TicketKey("m1")} |->
                    NewTicket("alice", "org", TierKey("org", "t1"), "m1")]
    /\ campaigns = [c \in {"org"} |->
                      [event |-> "org", organizer |-> "org",
                       funding_goal |-> MIN_FUNDING_GOAL,
                       total_raised |-> MaxExpenses,
                       deadline |-> 1, status |-> "Funded",
                       total_contributors |-> 1, created_at |-> 0,
                       total_expenses |-> expenses, total_revenue |-> 0,
                       backer_pool |-> 0, organizer_pool |-> 0, platform_pool |-> 0,
                       distribution_complete |-> FALSE, organizer_claimed |-> FALSE]]
    /\ contributions = [k \in {ContributionKey("org", "bob")} |->
                          [campaign |-> "org", contributor |-> "bob",
                           amount |-> MaxExpenses, contributed_at |-> 0,
                           refunded |-> FALSE, profit_share |-> 0,
                           profit_claimed |-> FALSE]]
    /\ budgets = [b \in {BudgetKey("org")} |->
                    [campaign |-> "org", total_amount |-> expenses,
                     description |-> 10,
                     milestones |-> [i \in 1..3 |->
                         [description |-> 10,
                          release_percentage |-> IF i = 1 THEN BPS_DENOMINATOR ELSE 0,
                          unlock_date |-> 0, released |-> TRUE,
                          released_amount |-> IF i = 1 THEN expenses ELSE 0]],
                     status |-> "Executed", voting_end |-> 1,
                     votes_for |-> MaxExpenses, votes_against |-> 0,
                     revision_count |-> 0, created_at |-> 0]]
    /\ votes = [v \in {VoteKey(BudgetKey("org"), "bob")} |->
                  [budget |-> BudgetKey("org"), voter |-> "bob",
                   contribution_amount |-> MaxExpenses, approve |-> TRUE,
                   voted_at |-> 0]]
    /\ lamports = [a \in LamportAccounts |->
                     IF a = Wallet("bob") THEN InitialBalance
                     ELSE IF a = CampaignEscrow("org") THEN MaxExpenses - expenses
                     ELSE IF a = Wallet("org") THEN InitialBalance + expenses
                     ELSE IF a = TicketEscrow("org") THEN revenue
                     ELSE IF a \in {Wallet(u) : u \in Users} THEN InitialBalance
                     ELSE 0]
    /\ nonces = Empty
    /\ tokenHolder = [m \in Mints |-> IF m = "m1" THEN "alice" ELSE "bob"]
    /\ published = {}
    /\ claims = [k \in EventOrganizers \X Users |-> 0]
    /\ checkin = [ticket |-> NoKey, preceding_verified |-> FALSE,
                  inspected_verified |-> FALSE]
    /\ calc = [amount |-> 0, pool_amount |-> 0, total_raised |-> 0,
               share |-> 0, computed |-> FALSE]

InitDistribution ==
    \E revenue \in RevenueChoices, expenses \in 0..MaxExpenses :
        EventRunState(revenue, expenses)

NextDistribution ==
    \/ TickUntil(MaxTime)
    \/ \E c \in EventOrganizers, e \in EventOrganizers : calculate_distribution(c, e)
    \/ \E c \in EventOrganizers, u \in Users :
         claim_backer_profit(c, ContributionKey(c, u), u)
    \/ \E c \in EventOrganizers, u \in Users : claim_organizer_profit(c, u)

SpecDistribution == InitDistribution /\ [][NextDistribution]_vars

\* C13: a successful calculate_distribution with revenue > expenses sets
\* organizer_pool = floor(profit * 35 / 100), platform_pool =
\* floor(profit * 5 / 100) and backer_pool = floor(profit * 60 / 100) plus the
\* profit the three floors leave over, so that the pools sum to profit; with
\* revenue <= expenses it sets the three pools to 0.
C13_PoolsSplitProfit ==
    [][\A c \in DOMAIN campaigns :
         LET revenue == events[campaigns[c].event].ticket_revenue
             expenses == campaigns[c].total_expenses
             profit == revenue - expenses
             backer == (profit * 60) \div 100
             organizer == (profit * 35) \div 100
             platform == (profit * 5) \div 100
         IN  calculate_distribution(c, campaigns[c].event) =>
                IF revenue > expenses
                THEN /\ campaigns'[c].organizer_pool = organizer
                     /\ campaigns'[c].platform_pool = platform
                     /\ campaigns'[c].backer_pool =
                           backer + (profit - (backer + organizer + platform))
                     /\ campaigns'[c].backer_pool + campaigns'[c].organizer_pool
                           + campaigns'[c].platform_pool = profit
                ELSE /\ campaigns'[c].organizer_pool = 0
                     /\ campaigns'[c].platform_pool = 0
                     /\ campaigns'[c].backer_pool = 0]_vars

\* a distributed profit whose three floors are positive and leave a remainder
C13_Witness ==
    \E c \in DOMAIN campaigns :
        LET profit == campaigns[c].total_revenue - campaigns[c].total_expenses
        IN  /\ campaigns[c].status = "Completed"
            /\ profit > 0
            /\ campaigns[c].platform_pool > 0
            /\ campaigns[c].organizer_pool > 0
            /\ campaigns[c].backer_pool > (profit * 60) \div 100

-----------------------------------------------------------------------------
(* Budget approval of a funded campaign: submission, voting, revision and   *)
(* milestone release                                                        *)

VoteUnit == 2
MaxBudgetTime == 3
BudgetTotal == 4 * VoteUnit

\* what alice, bob and the organizer contributed: alice alone ties with the
\* other two together
Contributed(u) == IF u = "alice" THEN 2 * VoteUnit ELSE VoteUnit

BudgetMilestones ==
    {<<MilestoneInput(10, 5000, 0), MilestoneInput(10, 3000, 0),
       MilestoneInput(10, 2000, MaxBudgetTime)>>,
     <<MilestoneInput(10, 30000, 0), MilestoneInput(10, 30000, 0),
       MilestoneInput(10, 15536, 0)>>,
     <<MilestoneInput(10, 5000, 0), MilestoneInput(10, 5000, 0),
       MilestoneInput(10, 5000, 0)>>,
     <<MilestoneInput(10, 5000, 0), MilestoneInput(10, 5000, 0)>>}

\* The state after create_event(org, start 2, end 3), create_campaign(goal
\* MIN_FUNDING_GOAL, deadline 1), contribute by alice, bob and org of
\* Contributed(u) each, and finalize_campaign, all at time 0.
FundedState ==
    /\ now = 0
    /\ events = [e \in {"org"} |->
                   [NewEvent("org", 10, 2, 3, 2, 500) EXCEPT
                        !.crowdfunding_enabled = TRUE, !.campaign = {"org"}]]
    /\ tiers = Empty
    /\ tickets = Empty
    /\ campaigns = [c \in {"org"} |->
                      [NewCampaign("org", "org", MIN_FUNDING_GOAL, 1) EXCEPT
                           !.total_raised = BudgetTotal,
                           !.total_contributors = Cardinality(Users),
                           !.status = "Funded"]]
    /\ contributions = [k \in {ContributionKey("org", u) : u \in Users} |->
                          [campaign |-> "org", contributor |-> k[2],
                           amount |-> Contributed(k[2]), contributed_at |-> 0,
                           refunded |-> FALSE, profit_share |-> 0,
                           profit_claimed |-> FALSE]]
    /\ budgets = Empty
    /\ votes = Empty
    /\ lamports = [a \in LamportAccounts |->
                     IF a = CampaignEscrow("org") THEN BudgetTotal
                     ELSE IF \E u \in Users : a = Wallet(u)
                          THEN InitialBalance
                               - Contributed(CHOOSE u \in Users : a = Wallet(u))
                     ELSE 0]
    /\ nonces = Empty
    /\ tokenHolder = [m \in Mints |-> IF m = "m1" THEN "alice" ELSE "bob"]
    /\ published = {}
    /\ claims = [k \in EventOrganizers \X Users |-> 0]
    /\ checkin = [ticket |-> NoKey, preceding_verified |-> FALSE,
                  inspected_verified |-> FALSE]
    /\ calc = [amount |-> 0, pool_amount |-> 0, total_raised |-> 0,
               share |-> 0, computed |-> FALSE]

\* voting periods the organizer asks for: one second, and the largest i64
BudgetPeriods == {1, I64_MAX}

NextBudget ==
    \/ TickUntil(MaxBudgetTime)
    \/ \E c \in EventOrganizers, u \in Users, ms \in BudgetMilestones, oc \in BOOLEAN :
         \E period \in BudgetPeriods : submit_budget(c, u, BudgetTotal, 10, ms, period, oc)
    \/ \E c \in EventOrganizers, u \in Users, ms \in BudgetMilestones, oc \in BOOLEAN :
         revise_budget(c, u, BudgetTotal, 10, ms, 1, oc)
    \/ \E b \in DOMAIN budgets, c \in EventOrganizers, u \in Users,
          approve \in BOOLEAN, oc \in BOOLEAN :
         vote_on_budget(b, c, u, approve, oc)
    \/ \E b \in DOMAIN budgets : finalize_budget_vote(b)
    \/ \E c \in EventOrganizers, u \in Users, i \in 0..3, oc \in BOOLEAN :
         release_milestone(c, c, u, i, oc)

SpecBudget == FundedState /\ [][NextBudget]_vars

PlainPercentageSum(b) ==
    budgets[b].milestones[1].release_percentage
    + budgets[b].milestones[2].release_percentage
    + budgets[b].milestones[3].release_percentage

\* C15: every Budget created by submit_budget or revise_budget has 3
\* milestones whose release_percentage values, added as plain integers, equal
\* exactly 10000.
C15_PercentagesSumTo10000 ==
    \A b \in DOMAIN budgets :
        /\ DOMAIN budgets[b].milestones = 1..3
        /\ PlainPercentageSum(b) = BPS_DENOMINATOR

\* C16: finalize_budget_vote succeeds only on a Pending budget with
\* now >= voting_end; it sets the status to Approved if and only if
\* votes_for > votes_against and votes_for > 0, to Rejected otherwise; on a
\* budget that is no longer Pending it fails with BudgetNotPending.
C16_FinalizeByMajority ==
    /\ [][\A b \in DOMAIN budgets :
            finalize_budget_vote(b) =>
                /\ budgets[b].status = "Pending"
                /\ now >= budgets[b].voting_end
                /\ (budgets'[b].status = "Approved") <=>
                       (budgets[b].votes_for > budgets[b].votes_against
                        /\ budgets[b].votes_for > 0)
                /\ budgets'[b].status \in {"Approved", "Rejected"}]_vars
    /\ [](\A b \in DOMAIN budgets :
            budgets[b].status # "Pending" =>
                finalize_budget_vote_err(b) = "BudgetNotPending")

\* a tie of votes finalized as Rejected beside a majority finalized as Approved
C16_Witness ==
    \E b1 \in DOMAIN budgets, b2 \in DOMAIN budgets :
        /\ budgets[b1].status = "Rejected"
        /\ budgets[b1].votes_for = budgets[b1].votes_against
        /\ budgets[b1].votes_for > 0
        /\ budgets[b2].status = "Approved"
        /\ budgets[b2].votes_for > budgets[b2].votes_against

\* the contributions behind the votes cast on budget b with the given choice
Ballots(b, approve) ==
    {ContributionKey(budgets[b].campaign, u) : u \in
        {v \in Users : /\ VoteKey(b, v) \in DOMAIN votes
                       /\ votes[VoteKey(b, v)].approve = approve}}

C18_ReviseRejectedOnly ==
    /\ [][\A c \in DOMAIN campaigns, u \in Users, ms \in BudgetMilestones, oc \in BOOLEAN :
            revise_budget(c, u, BudgetTotal, 10, ms, 1, oc) =>
                LET old == budgets[BudgetKey(c)]
                IN  /\ u = campaigns[c].organizer
                    /\ old.status = "Rejected"
                    /\ old.revision_count < 2
                    /\ \A b \in DOMAIN budgets : budgets'[b] = budgets[b]
                    /\ \E k \in DOMAIN budgets' \ DOMAIN budgets :
                         /\ DOMAIN budgets' = DOMAIN budgets \cup {k}
                         /\ budgets'[k].status = "Pending"
                         /\ budgets'[k].revision_count = old.revision_count + 1
                         /\ budgets'[k].votes_for = 0
                         /\ budgets'[k].votes_against = 0
                         /\ DOMAIN budgets'[k].milestones = 1..3
                         /\ \A i \in 1..3 :
                              /\ ~budgets'[k].milestones[i].released
                              /\ budgets'[k].milestones[i].released_amount = 0]_vars
    /\ [](\A b \in DOMAIN budgets : budgets[b].revision_count <= 2)

\* a Pending first revision beside the Rejected budget it revises
C18_Witness ==
    \E c \in DOMAIN campaigns :
        /\ BudgetKey(c) \in DOMAIN budgets
        /\ budgets[BudgetKey(c)].status = "Rejected"
        /\ \E k \in DOMAIN budgets :
             /\ budgets[k].revision_count = budgets[BudgetKey(c)].revision_count + 1
             /\ budgets[k].status = "Pending"
             /\ budgets[k].votes_for = 0

\* C19: once the original budget (revision_count 0) and its first revision
\* (revision_count 1) are both Rejected, revise_budget can succeed again, for
\* some signer and milestones, and create a budget with revision_count 2.
C19_SecondRevisionPossible ==
    \A c \in DOMAIN campaigns :
        (/\ BudgetKey(c) \in DOMAIN budgets
         /\ budgets[BudgetKey(c)].status = "Rejected"
         /\ RevisionKey(c, 1) \in DOMAIN budgets
         /\ budgets[RevisionKey(c, 1)].status = "Rejected")
        => \E u \in Users, ms \in BudgetMilestones, oc \in BOOLEAN :
             revise_budget_err(c, u, BudgetTotal, 10, ms, oc) = Ok

\* what holds instead: the budget revised is always the one of the PDA
\* ["budget", campaign], whose revision_count stays 0, so every revision is
\* created at ["budget_revision", campaign, [1]] and a second one finds that
\* account in use
RevisedAtMostOnce ==
    \A b \in DOMAIN budgets :
        /\ budgets[b].revision_count <= 1
        /\ budgets[b].revision_count = 1 =>
             \A u \in Users, ms \in BudgetMilestones, oc \in BOOLEAN :
                 revise_budget_err(budgets[b].campaign, u, BudgetTotal, 10, ms, oc)
                     \in {"UnauthorizedCampaignAction", "AccountAlreadyInUse"}

\* the released_amount of the released milestones of budget b
RECURSIVE ReleasedOf(_, _)
ReleasedOf(b, n) ==
    IF n = 0 THEN 0
    ELSE (IF budgets[b].milestones[n].released
          THEN budgets[b].milestones[n].released_amount ELSE 0)
         + ReleasedOf(b, n - 1)

C21_BudgetStatusTransitions ==
    /\ [](\A b \in DOMAIN budgets :
            (budgets[b].status = "Executed")
                <=> (\A i \in 1..3 : budgets[b].milestones[i].released))
    /\ [][\A b \in DOMAIN budgets :
            budgets'[b].status # budgets[b].status =>
                \/ /\ budgets[b].status = "Pending"
                   /\ budgets'[b].status \in {"Approved", "Rejected"}
                   /\ finalize_budget_vote(b)
                \/ /\ budgets[b].status = "Approved"
                   /\ budgets'[b].status = "Executed"
                   /\ \E c \in DOMAIN campaigns, i \in 0..2, oc \in BOOLEAN :
                        /\ b = BudgetKey(c)
                        /\ release_milestone(campaigns[c].event, c,
                                             campaigns[c].organizer, i, oc)]_vars

\* an Executed budget, reached through Pending and Approved
C21_Witness ==
    \E b \in DOMAIN budgets :
        /\ budgets[b].status = "Executed"
        /\ \A i \in 1..3 : budgets[b].milestones[i].released
        /\ budgets[b].votes_for > budgets[b].votes_against
        /\ now >= budgets[b].voting_end

-----------------------------------------------------------------------------
(* Ticket sale of an event: tiers, purchases, refunds, withdrawals and the   *)
(* closing and re-creation of the event                                      *)

MaxSaleTime == 2
SaleSupply == 2
SaleTiers == {"t1", "t2"}
\* max_supply arguments: none, some, all of the event's supply, and one that
\* overflows the u32 sum once something is allocated
SaleSupplies == {0, SaleSupply - 1, SaleSupply, U32_MAX}
SaleBuyers == {"alice", "bob"}

NextSale ==
    \/ TickUntil(MaxSaleTime)
    \/ \E o \in EventOrganizers : create_event(o, 10, 1, MaxSaleTime, SaleSupply, 500)
    \/ \E e \in EventOrganizers, t \in SaleTiers, u \in {"org", "bob"},
          max_supply \in SaleSupplies :
         create_ticket_tier(e, t, u, 10, TicketPrice, max_supply, 500, 0, TRUE)
    \/ \E m \in Mints, e \in EventOrganizers, t \in SaleTiers, ta \in TokenAccounts,
          buyer \in SaleBuyers :
         purchase_ticket(m, e, TierKey(e, t), ta, buyer)
    \/ \E m \in Mints, e \in EventOrganizers, t \in SaleTiers, buyer \in SaleBuyers,
          u \in {"org", "bob"} :
         register_mint(m, e, TierKey(e, t), buyer, u)
    \/ \E m \in Mints, e \in EventOrganizers, u \in {"org", "bob"},
          buyer_signed \in BOOLEAN :
         refund_ticket(m, e, u, buyer_signed, TicketPrice)
    \/ \E e \in EventOrganizers, u \in {"org", "bob"} :
         withdraw_funds(e, u, Treasury, TicketPrice)
    \/ \E e \in EventOrganizers, u \in {"org", "bob"} : close_event(e, u)
    \/ \E e \in EventOrganizers :
         system_transfer("org", EventEscrow(e), TicketPrice + RentExemptMinimum)
    \/ \E m \in Mints, u \in SaleBuyers : mint_to(m, u)

SpecSale == Init /\ [][NextSale]_vars

\* C22: tier.current_supply <= tier.max_supply always; on a tier with
\* current_supply = max_supply purchase_ticket and register_mint fail, with
\* ExceedsTotalSupply once their accounts are accepted; current_supply
\* changes only by a successful purchase_ticket or register_mint on the tier,
\* and then by exactly 1.
C22_SupplyWithinMax ==
    /\ [](\A t \in DOMAIN tiers :
            /\ tiers[t].current_supply <= tiers[t].max_supply
            /\ tiers[t].current_supply = tiers[t].max_supply =>
                 \A m \in Mints, e \in EventOrganizers, buyer \in Users :
                    /\ \A ta \in TokenAccounts :
                         purchase_ticket_err(m, e, t, ta, buyer)
                            \in {"AccountAlreadyInUse", "AccountNotInitialized",
                                 "UnauthorizedTierCreation", "ExceedsTotalSupply"}
                    /\ \A u \in Users :
                         register_mint_err(m, e, t, buyer, u)
                            \in {"AccountAlreadyInUse", "AccountNotInitialized",
                                 "UnauthorizedTierCreation", "InvalidSupply",
                                 "ExceedsTotalSupply"})
    /\ [][\A t \in DOMAIN tiers :
            tiers'[t].current_supply # tiers[t].current_supply =>
                /\ tiers'[t].current_supply = tiers[t].current_supply + 1
                /\ \E m \in Mints, buyer \in Users :
                     \/ \E ta \in TokenAccounts :
                          purchase_ticket(m, tiers[t].event, t, ta, buyer)
                     \/ \E u \in Users :
                          register_mint(m, tiers[t].event, t, buyer, u)]_vars

\* a sold-out tier while a mint without a ticket is still at hand
C22_Witness ==
    \E t \in DOMAIN tiers, m \in Mints :
        /\ tiers[t].max_supply > 0
        /\ tiers[t].current_supply = tiers[t].max_supply
        /\ tiers[t].event \in DOMAIN events
        /\ TicketKey(m) \notin DOMAIN tickets
        /\ purchase_ticket_err(m, tiers[t].event, t, TokenAccount(m, tokenHolder[m]),
                               tokenHolder[m]) = "ExceedsTotalSupply"

\* the tiers that name event e
TiersOf(e) == {t \in DOMAIN tiers : tiers[t].event = e}

RECURSIVE SumMaxSupply(_)
SumMaxSupply(ts) ==
    IF ts = {} THEN 0
    ELSE LET t == CHOOSE x \in ts : TRUE
         IN  tiers[t].max_supply + SumMaxSupply(ts \ {t})

\* C23: event.allocated_supply <= event.total_supply and allocated_supply
\* equals the sum of max_supply over the event's tiers, in every state.
C23_AllocatedIsSumOfTiers ==
    \A e \in DOMAIN events :
        /\ events[e].allocated_supply <= events[e].total_supply
        /\ events[e].allocated_supply = SumMaxSupply(TiersOf(e))

\* what holds instead: allocated_supply is within total_supply, and
\* create_ticket_tier refuses a tier that would exceed it or overflow and
\* otherwise adds max_supply
AllocatedWithinTotal ==
    /\ [](\A e \in DOMAIN events :
            /\ events[e].allocated_supply <= events[e].total_supply
            /\ \A t \in SaleTiers, max_supply \in SaleSupplies :
                 events[e].allocated_supply + max_supply > events[e].total_supply =>
                    create_ticket_tier_err(e, t, events[e].authority, 10, TicketPrice,
                                           max_supply)
                        \in {"AccountAlreadyInUse", "ExceedsTotalSupply"})
    /\ [][\A e \in DOMAIN events \cap DOMAIN events' :
            events'[e].allocated_supply # events[e].allocated_supply =>
                \E t \in DOMAIN tiers' \ DOMAIN tiers :
                    /\ tiers'[t].event = e
                    /\ events'[e].allocated_supply
                         = events[e].allocated_supply + tiers'[t].max_supply]_vars

\* C24: purchase_ticket succeeds only if the supplied mint has supply 1 and
\* the token account presented is an account of this mint, owned by the
\* buyer, with balance 1; so the owner of a new ticket holds its asset.
C24_BuyerHoldsAsset ==
    [][\A m \in Mints, e \in EventOrganizers, t \in DOMAIN tiers, ta \in TokenAccounts, buyer \in Users :
          purchase_ticket(m, e, t, ta, buyer) =>
              /\ MintSupply(m) = 1
              /\ ta = TokenAccount(m, buyer)
              /\ TokenAmount(ta) = 1
              /\ tokenHolder[m] = tickets'[TicketKey(m)].owner]_vars

\* C25: an event has one escrow: a successful purchase_ticket credits the
\* price to the account that refund_ticket and withdraw_funds debit and whose
\* balance close_event checks.
C25_OneEscrowPerEvent ==
    [][\A m \in Mints, e \in DOMAIN events, t \in DOMAIN tiers, ta \in TokenAccounts, buyer \in Users :
          purchase_ticket(m, e, t, ta, buyer) =>
              lamports'[EventEscrow(e)]
                  = lamports[EventEscrow(e)] + tiers[t].price_lamports]_vars

\* what holds instead: the price goes to the PDA ["ticket_escrow", event],
\* which no instruction debits, while refunds and withdrawals are paid from
\* the PDA ["escrow", event], which no instruction of the program credits
PaymentsStayInTicketEscrow ==
    /\ [][\A e \in EventOrganizers :
            /\ lamports'[TicketEscrow(e)] >= lamports[TicketEscrow(e)]
            /\ \A m \in Mints, t \in DOMAIN tiers, ta \in TokenAccounts, buyer \in Users :
                 purchase_ticket(m, e, t, ta, buyer) =>
                    /\ lamports'[TicketEscrow(e)]
                         = lamports[TicketEscrow(e)] + tiers[t].price_lamports
                    /\ lamports'[EventEscrow(e)] = lamports[EventEscrow(e)]
            /\ lamports'[EventEscrow(e)] > lamports[EventEscrow(e)] =>
                 \E u \in Users, amount \in 1..InitialBalance :
                    system_transfer(u, EventEscrow(e), amount)]_vars

-----------------------------------------------------------------------------
(* Resale of sold tickets *)

MaxResaleTime == 1
ResalePrice == 30
ResalePrices == {NoPrice, 0, ResalePrice}

\* The state after create_event(org, start 1, end 3, total_supply 2),
\* create_ticket_tier(t1, resale enabled, royalty 500 bps, max_supply 1),
\* create_ticket_tier(t2, resale disabled, max_supply 1), purchase_ticket(m1)
\* by alice on t1, register_mint(m2) for bob on t2 and a system transfer of
\* TicketPrice + RentExemptMinimum from org to the event escrow.
SoldState ==
    /\ now = 0
    /\ events = [e \in {"org"} |->
                   [NewEvent("org", 10, 1, 3, 2, 500) EXCEPT
                        !.allocated_supply = 2, !.ticket_revenue = TicketPrice]]
    /\ tiers = [t \in {TierKey("org", "t1"), TierKey("org", "t2")} |->
                  [event |-> "org", price_lamports |-> TicketPrice, max_supply |-> 1,
                   current_supply |-> 1, metadata_uri |-> 10,
                   royalty_bps |-> IF t = TierKey("org", "t1") THEN 500 ELSE 0,
                   resale_enabled |-> (t = TierKey("org", "t1")),
                   tier_index |-> 0]]
    /\ tickets = [m \in {TicketKey("m1"), TicketKey("m2")} |->
                    IF m = TicketKey("m1")
                    THEN NewTicket("alice", "org", TierKey("org", "t1"), "m1")
                    ELSE NewTicket("bob", "org", TierKey("org", "t2"), "m2")]
    /\ tokenHolder = [m \in Mints |-> IF m = "m1" THEN "alice" ELSE "bob"]
    /\ lamports = [a \in LamportAccounts |->
                     IF a = Wallet("alice") THEN InitialBalance - TicketPrice
                     ELSE IF a = TicketEscrow("org") THEN TicketPrice
                     ELSE IF a = Wallet("org")
                          THEN InitialBalance - TicketPrice - RentExemptMinimum
                     ELSE IF a = EventEscrow("org") THEN TicketPrice + RentExemptMinimum
                     ELSE IF a = Wallet("bob") THEN InitialBalance
                     ELSE 0]
    /\ nonces = Empty
    /\ published = {}
    /\ campaigns = Empty
    /\ contributions = Empty
    /\ budgets = Empty
    /\ votes = Empty
    /\ claims = [k \in EventOrganizers \X Users |-> 0]
    /\ checkin = [ticket |-> NoKey, preceding_verified |-> FALSE,
                  inspected_verified |-> FALSE]
    /\ calc = [amount |-> 0, pool_amount |-> 0, total_raised |-> 0,
               share |-> 0, computed |-> FALSE]

NextResale ==
    \/ TickUntil(MaxResaleTime)
    \/ \E m \in Mints, sender \in Signers, recipient \in Signers, price \in ResalePrices,
          platform_treasury \in {Treasury, "alice", "bob"} :
         transfer_ticket(m, sender, recipient, platform_treasury, price)
    \/ \E m \in Mints, u \in Signers : mark_ticket_used(m, u, "org")
    \/ \E m \in Mints, u \in {"org", "bob"}, buyer_signed \in BOOLEAN :
         refund_ticket(m, "org", u, buyer_signed, TicketPrice)

SpecResale == SoldState /\ [][NextResale]_vars

\* floor(price * royalty_bps / 10000) for the tier of ticket m, 0 without a price
RoyaltyOf(m, sale_price) ==
    IF sale_price = NoPrice THEN 0
    ELSE (sale_price * tiers[tickets[m].tier].royalty_bps) \div 10000

\* C27: transfer_ticket succeeds only if tier.resale_enabled, the ticket is
\* neither used nor refunded and the signer is ticket.owner holding the
\* ticket's token; it makes the recipient the owner, and with a sale price
\* and royalty_bps > 0 it moves exactly floor(price * royalty_bps / 10000)
\* from the sender to the platform treasury, which is the event's treasury.
C27_RoyaltyToTreasury ==
    [][\A m \in DOMAIN tickets, sender \in Users, recipient \in Users, pt \in Users \cup {Treasury}, price \in ResalePrices :
          transfer_ticket(m, sender, recipient, pt, price) =>
              /\ tiers[tickets[m].tier].resale_enabled
              /\ ~tickets[m].used
              /\ ~tickets[m].refunded
              /\ sender = tickets[m].owner
              /\ tokenHolder[m] = sender
              /\ tickets'[m].owner = recipient
              /\ lamports'[Wallet(sender)] = lamports[Wallet(sender)] - RoyaltyOf(m, price)
              /\ lamports'[Wallet(events[tickets[m].event].treasury)]
                    = lamports[Wallet(events[tickets[m].event].treasury)]
                      + RoyaltyOf(m, price)]_vars

\* what holds instead: the royalty goes to whatever account the sender names
\* as platform_treasury, the sender's own included
RoyaltyToNamedAccount ==
    [][\A m \in DOMAIN tickets, sender \in Users, recipient \in Users, pt \in Users \cup {Treasury}, price \in ResalePrices :
          transfer_ticket(m, sender, recipient, pt, price) =>
              /\ tiers[tickets[m].tier].resale_enabled
              /\ ~tickets[m].used
              /\ ~tickets[m].refunded
              /\ sender = tickets[m].owner
              /\ tokenHolder[m] = sender
              /\ tickets'[m] = [tickets[m] EXCEPT !.owner = recipient]
              /\ tokenHolder'[m] = recipient
              /\ \A a \in LamportAccounts :
                   lamports'[a] =
                      IF pt = sender THEN lamports[a]
                      ELSE IF a = Wallet(sender) THEN lamports[a] - RoyaltyOf(m, price)
                      ELSE IF a = Wallet(pt) THEN lamports[a] + RoyaltyOf(m, price)
                      ELSE lamports[a]]_vars

-----------------------------------------------------------------------------
(* Signature-gated check-in: what is rejected *)

\* one of the five conditions on the instruction at `index` of the
\* transaction `tx`: there is no such instruction, it is not an
\* ed25519-verify instruction, its data is shorter than 112 bytes, the key at
\* bytes 16..48 is not the key of `owner`, or its message does not start with
\* nonce_hash followed by the little-endian nonce_value
Unacceptable(tx, index, owner, nonce_hash, nonce_value) ==
    IF index < 0 THEN TRUE
    ELSE LET ix == tx[index + 1]
             offset == ReadLe16(ix.data, 12)
             size == ReadLe16(ix.data, 14)
         IN  IF ix.program_id # ED25519_PROGRAM THEN TRUE
             ELSE IF Len(ix.data) < 112 THEN TRUE
             ELSE IF Slice(ix.data, 16, 48) # PkBytes(owner) THEN TRUE
             ELSE IF offset + size > Len(ix.data) \/ size < 40 THEN TRUE
             ELSE Slice(ix.data, offset, offset + 40) #
                      HashBytes(nonce_hash) \o Le64(nonce_value)

\* C28: mark_ticket_used_ed25519 fails closed: when it is the first
\* instruction of the transaction, or the instruction before it is not an
\* ed25519-verify instruction, or that instruction's data is shorter than
\* 112 bytes, or its public key is not ticket.owner, or its message does not
\* start with nonce_hash and nonce_value, the operation does not succeed: the
\* ticket stays unused and no Nonce record is created.
C28_FailsClosedOnPreceding ==
    [][\A m \in Mints, payer \in Signers, t \in Transactions,
          h \in NonceHashes, v \in NonceValues :
          (/\ TicketKey(m) \in DOMAIN tickets
           /\ Unacceptable(t.tx, t.executing_index - 1, tickets[m].owner, h, v))
          => ~mark_ticket_used_ed25519(t.tx, t.executing_index, m, h, v, payer, "org")]_vars

\* What holds instead: the five conditions are enforced on the instruction
\* the program loads, which is the last instruction of the transaction; the
\* error is Ed25519InstructionMissing or InvalidSignature unless an earlier
\* check has failed.
FailsClosedOnInspected ==
    /\ \A m \in Mints, t \in Transactions, h \in NonceHashes, v \in NonceValues :
         (/\ TicketKey(m) \in DOMAIN tickets
          /\ Unacceptable(t.tx, (Len(t.tx) - 1) % 256, tickets[m].owner, h, v))
         => mark_ticket_used_ed25519_err(t.tx, t.executing_index, m, h, v)
              \in {"AccountAlreadyInUse", "TicketAlreadyUsed",
                   "Ed25519InstructionMissing", "InvalidSignature"}
    /\ [][\A m \in Mints, payer \in Signers, t \in Transactions,
             h \in NonceHashes, v \in NonceValues :
             (/\ TicketKey(m) \in DOMAIN tickets
              /\ Unacceptable(t.tx, (Len(t.tx) - 1) % 256, tickets[m].owner, h, v))
             => ~mark_ticket_used_ed25519(t.tx, t.executing_index, m, h, v, payer,
                                          "org")]_vars

\* C29: a (ticket, nonce_hash) pair backs at most one successful check-in:
\* mark_ticket_used_ed25519 fails for a pair whose Nonce record exists and a
\* record, once created, is never rewritten or removed; every Nonce record
\* has used = true and expires_at = created_at + 300; and the operation never
\* succeeds at a time later than the expires_at of its nonce.
C29_NonceBacksOneCheckin ==
    /\ [](\A k \in DOMAIN nonces :
            /\ nonces[k].used
            /\ nonces[k].expires_at = nonces[k].created_at + 300
            /\ \A t \in Transactions, v \in NonceValues :
                 mark_ticket_used_ed25519_err(t.tx, t.executing_index, k[1], k[2], v)
                     # Ok)
    /\ [][/\ \A k \in DOMAIN nonces :
               k \in DOMAIN nonces' /\ nonces'[k] = nonces[k]
          /\ \A k \in DOMAIN nonces' \ DOMAIN nonces :
               /\ tickets'[k[1]].used /\ ~tickets[k[1]].used
               /\ nonces'[k].ticket = TicketKey(k[1])
               /\ nonces'[k].nonce_hash = k[2]
               /\ nonces'[k].created_at = now
               /\ now <= nonces'[k].expires_at]_vars

\* a check-in with a nonce has succeeded and time has passed since
C29_Witness ==
    \E k \in DOMAIN nonces :
        /\ tickets[k[1]].used
        /\ tickets[k[1]].checked_in_ts = nonces[k].created_at
        /\ now > nonces[k].created_at

\* C30: contribute succeeds only if the campaign is Pending, the deadline has
\* not passed (now <= deadline), amount > 0 and the contributor has no
\* Contribution record for the campaign; a success moves amount from the
\* contributor to the campaign escrow, creates the Contribution with
\* refunded = false and profit_claimed = false, and raises total_raised by
\* amount and total_contributors by 1.
C30_ContributeGuardsAndEffects ==
    [][\A c \in EventOrganizers, ca \in ContributionChoices, oc \in BOOLEAN :
         contribute(c, ca[1], ca[2], oc) =>
            LET k == ContributionKey(c, ca[1])
            IN  /\ campaigns[c].status = "Pending"
                /\ now <= campaigns[c].deadline
                /\ ca[2] > 0
                /\ k \notin DOMAIN contributions
                /\ lamports'[Wallet(ca[1])] = lamports[Wallet(ca[1])] - ca[2]
                /\ lamports'[CampaignEscrow(c)] = lamports[CampaignEscrow(c)] + ca[2]
                /\ \A a \in LamportAccounts \ {Wallet(ca[1]), CampaignEscrow(c)} :
                     lamports'[a] = lamports[a]
                /\ k \in DOMAIN contributions'
                /\ contributions'[k].campaign = c
                /\ contributions'[k].contributor = ca[1]
                /\ contributions'[k].amount = ca[2]
                /\ ~contributions'[k].refunded
                /\ ~contributions'[k].profit_claimed
                /\ campaigns'[c].total_raised = campaigns[c].total_raised + ca[2]
                /\ campaigns'[c].total_contributors =
                       campaigns[c].total_contributors + 1]_vars

\* two backers have contributed to a campaign that is still pending, the
\* second of them at the deadline itself
C30_Witness ==
    \E c \in DOMAIN campaigns :
        /\ campaigns[c].status = "Pending"
        /\ campaigns[c].total_contributors = 2
        /\ \E k \in DOMAIN contributions :
             /\ contributions[k].campaign = c
             /\ contributions[k].contributed_at = campaigns[c].deadline
             /\ campaigns[c].total_raised > contributions[k].amount

-----------------------------------------------------------------------------
(* Arithmetic *)

\* C31: all arithmetic is checked: an operation in which an addition has an
\* exact result that does not fit its integer type (voting_end = now + voting
\* period in submit_budget and revise_budget, votes_for and votes_against in
\* vote_on_budget, total_expenses in release_milestone) does not succeed, so
\* no stored field holds a wrapped value: the voting_end of every new budget
\* is the exact sum.
C31_AllArithmeticChecked ==
    [][/\ \A c \in EventOrganizers, u \in Users, ms \in BudgetMilestones,
             period \in BudgetPeriods, oc \in BOOLEAN :
             submit_budget(c, u, BudgetTotal, 10, ms, period, oc) =>
                /\ ~OverflowsI64(now, period)
                /\ budgets'[BudgetKey(c)].voting_end = now + period
       /\ \A c \in EventOrganizers, u \in Users, ms \in BudgetMilestones,
             oc \in BOOLEAN :
             revise_budget(c, u, BudgetTotal, 10, ms, 1, oc) =>
                ~OverflowsI64(now, 1)
       /\ \A b \in DOMAIN budgets, c \in EventOrganizers, u \in Users,
             approve \in BOOLEAN, oc \in BOOLEAN :
             vote_on_budget(b, c, u, approve, oc) =>
                /\ budgets'[b].votes_for + budgets'[b].votes_against =
                     budgets[b].votes_for + budgets[b].votes_against
                       + contributions[ContributionKey(c, u)].amount
       /\ \A c \in EventOrganizers, u \in Users, i \in 0..3, oc \in BOOLEAN :
             release_milestone(c, c, u, i, oc) =>
                campaigns'[c].total_expenses >= campaigns[c].total_expenses]_vars

\* What holds instead: in a build with overflow checks the plain additions
\* abort the operation (with a panic, not with ArithmeticOverflow), so with
\* that setting a successful submit_budget stores the exact voting_end.
PlainAdditionsAbortWhenChecked ==
    [][\A c \in EventOrganizers, u \in Users, ms \in BudgetMilestones,
          period \in BudgetPeriods :
          submit_budget(c, u, BudgetTotal, 10, ms, period, TRUE) =>
             /\ ~OverflowsI64(now, period)
             /\ budgets'[BudgetKey(c)].voting_end = now + period]_vars

-----------------------------------------------------------------------------
(* Refunds and profit claims *)

\* C32: claim_refund succeeds only if the campaign is Failed, the
\* contribution has refunded = false and the signer is its contributor; a
\* success transfers exactly contribution.amount from the campaign escrow to
\* the contributor, sets refunded and lowers total_raised by that amount; a
\* second claim for the same contribution fails with
\* ContributionAlreadyRefunded and moves no funds.
C32_ClaimRefundOnce ==
    /\ [](\A k \in DOMAIN contributions :
            contributions[k].refunded =>
                claim_refund_err(k[1], k[2]) = "ContributionAlreadyRefunded")
    /\ [][\A c \in EventOrganizers, u \in Users :
            claim_refund(c, u) =>
               LET k == ContributionKey(c, u)
               IN  /\ campaigns[c].status = "Failed"
                   /\ ~contributions[k].refunded
                   /\ contributions[k].contributor = u
                   /\ lamports'[CampaignEscrow(c)] =
                        lamports[CampaignEscrow(c)] - contributions[k].amount
                   /\ lamports'[Wallet(u)] = lamports[Wallet(u)] + contributions[k].amount
                   /\ \A a \in LamportAccounts \ {CampaignEscrow(c), Wallet(u)} :
                        lamports'[a] = lamports[a]
                   /\ contributions'[k].refunded
                   /\ campaigns'[c].total_raised =
                        campaigns[c].total_raised - contributions[k].amount]_vars

\* one backer of a failed campaign has been refunded and another has not yet
C32_Witness ==
    \E k1 \in DOMAIN contributions, k2 \in DOMAIN contributions :
        /\ k1[1] = k2[1]
        /\ campaigns[k1[1]].status = "Failed"
        /\ contributions[k1].refunded /\ contributions[k1].amount > 0
        /\ ~contributions[k2].refunded
        /\ campaigns[k1[1]].total_raised = contributions[k2].amount

\* C33: no Contribution ever has refunded = true and profit_claimed = true:
\* claim_refund succeeds only on a Failed campaign, claim_backer_profit only
\* on a Completed one, and a campaign that is Failed stays Failed and one that
\* is Completed stays Completed.
C33_RefundedOrClaimedNotBoth ==
    /\ [](\A k \in DOMAIN contributions :
            ~(contributions[k].refunded /\ contributions[k].profit_claimed))
    /\ [][/\ \A c \in EventOrganizers, u \in Users :
               claim_refund(c, u) => campaigns[c].status = "Failed"
          /\ \A c \in EventOrganizers, u \in Users :
               claim_backer_profit(c, ContributionKey(c, u), u) =>
                  campaigns[c].status = "Completed"
          /\ \A c \in DOMAIN campaigns :
               campaigns[c].status \in {"Failed", "Completed"} =>
                  /\ c \in DOMAIN campaigns'
                  /\ campaigns'[c].status = campaigns[c].status]_vars

\* a backer of a completed campaign has claimed a profit share and is refused
\* a refund
C33_Witness ==
    \E k \in DOMAIN contributions :
        /\ contributions[k].profit_claimed
        /\ contributions[k].profit_share > 0
        /\ campaigns[k[1]].status = "Completed"
        /\ claim_refund_err(k[1], k[2]) = "CannotRefundFundedCampaign"

\* C34: claim_organizer_profit succeeds only if the signer is
\* campaign.organizer and the campaign is Completed with distribution_complete
\* and organizer_claimed = false; a success sets organizer_claimed and
\* transfers exactly organizer_pool from the campaign escrow to the organizer
\* (nothing when the pool is 0); a second invocation fails with
\* OrganizerAlreadyClaimed and moves no funds.
C34_OrganizerClaimsOnce ==
    /\ [](\A c \in DOMAIN campaigns :
            campaigns[c].organizer_claimed =>
                /\ claim_organizer_profit_err(c, campaigns[c].organizer) =
                     "OrganizerAlreadyClaimed"
                /\ \A u \in Users : claim_organizer_profit_err(c, u) # Ok)
    /\ [][\A c \in EventOrganizers, u \in Users :
            claim_organizer_profit(c, u) =>
               /\ u = campaigns[c].organizer
               /\ campaigns[c].status = "Completed"
               /\ campaigns[c].distribution_complete
               /\ ~campaigns[c].organizer_claimed
               /\ campaigns'[c].organizer_claimed
               /\ lamports'[CampaignEscrow(c)] =
                    lamports[CampaignEscrow(c)] - campaigns[c].organizer_pool
               /\ lamports'[Wallet(u)] = lamports[Wallet(u)] + campaigns[c].organizer_pool
               /\ \A a \in LamportAccounts \ {CampaignEscrow(c), Wallet(u)} :
                    lamports'[a] = lamports[a]]_vars

\* the organizer has claimed a pool that was not empty
C34_Witness ==
    \E c \in DOMAIN campaigns :
        /\ campaigns[c].organizer_claimed
        /\ campaigns[c].organizer_pool > 0

-----------------------------------------------------------------------------
(* Event administration: create_event, update_event and close_event *)

MaxEventTime == 3
EventStarts == {1, MaxEventTime - 1}
EventEnds == {MaxEventTime - 1, MaxEventTime}
SplitChoices == {500, BPS_DENOMINATOR, BPS_DENOMINATOR + 1}

NextEvent ==
    \/ TickUntil(MaxEventTime)
    \/ \E o \in EventOrganizers, start_ts \in EventStarts, end_ts \in EventEnds,
          bps \in SplitChoices :
         create_event(o, 10, start_ts, end_ts, 2, bps)
    \/ \E e \in EventOrganizers, u \in {"org", "bob"}, uri \in {{}, {10}},
          end_ts \in {{}} \cup {{ts} : ts \in 1..MaxEventTime},
          bps \in {{}} \cup {{b} : b \in SplitChoices}, treasury \in {{}, {"bob"}} :
         update_event(e, u, uri, end_ts, bps, treasury)
    \/ \E e \in EventOrganizers, u \in {"org", "bob"} : close_event(e, u)

SpecEvent == Init /\ [][NextEvent]_vars

\* C35: every Event has start_ts < end_ts and platform_split_bps <= 10000 in
\* every reachable state, after create_event with any accepted arguments and
\* after any sequence of successful update_event calls.
C35_EventWellFormed ==
    \A e \in DOMAIN events :
        /\ events[e].start_ts < events[e].end_ts
        /\ events[e].platform_split_bps <= 10000

\* What holds instead: create_event stores start_ts < end_ts; an end_ts that
\* update_event stores is later than the time of the update, and a
\* platform_split_bps that update_event stores is at most 10000.
EventChecksAtWrite ==
    [][/\ \A o \in EventOrganizers :
            (EventKey(o) \notin DOMAIN events /\ EventKey(o) \in DOMAIN events') =>
                events'[EventKey(o)].start_ts < events'[EventKey(o)].end_ts
       /\ \A e \in DOMAIN events :
            e \in DOMAIN events' =>
               /\ events'[e].start_ts = events[e].start_ts
               /\ events'[e].end_ts # events[e].end_ts => events'[e].end_ts > now
               /\ events'[e].platform_split_bps # events[e].platform_split_bps =>
                     events'[e].platform_split_bps <= BPS_DENOMINATOR]_vars

\* the shares the backers of campaign c listed in ks can still claim
RECURSIVE UnclaimedShares(_, _)
UnclaimedShares(c, ks) ==
    IF ks = {} THEN 0
    ELSE LET k == CHOOSE x \in ks : TRUE
         IN  (IF contributions[k].campaign = c /\ ~contributions[k].profit_claimed
              THEN calculate_share(contributions[k].amount, campaigns[c].backer_pool,
                                   campaigns[c].total_raised)
              ELSE 0)
             + UnclaimedShares(c, ks \ {k})

\* what campaign c still owes: the unclaimed backer shares and the
\* organizer pool while it is unclaimed
OwedProfit(c) ==
    UnclaimedShares(c, DOMAIN contributions)
        + (IF campaigns[c].organizer_claimed THEN 0 ELSE campaigns[c].organizer_pool)

\* C36: for every Completed campaign the campaign escrow holds at least the
\* sum of the unclaimed backer shares plus the unclaimed organizer_pool, so
\* claim_backer_profit and claim_organizer_profit never fail with
\* InsufficientBalance, in whatever order the backers and the organizer claim.
C36_EscrowCoversProfit ==
    \A c \in DOMAIN campaigns :
        campaigns[c].status = "Completed" =>
            /\ lamports[CampaignEscrow(c)] >= OwedProfit(c)
            /\ \A u \in Users :
                 /\ claim_backer_profit_err(c, ContributionKey(c, u), u)
                        # "InsufficientBalance"
                 /\ claim_organizer_profit_err(c, u) # "InsufficientBalance"

\* What holds instead: a claim pays only what the campaign escrow holds, so
\* the escrow balance never goes below zero and a paid share never exceeds
\* the balance before the claim.
ClaimsPaidFromBalance ==
    /\ [](\A a \in LamportAccounts : lamports[a] >= 0)
    /\ [][\A c \in EventOrganizers, u \in Users :
            /\ claim_backer_profit(c, ContributionKey(c, u), u) =>
                  contributions'[ContributionKey(c, u)].profit_share
                      <= lamports[CampaignEscrow(c)]
            /\ claim_organizer_profit(c, u) =>
                  campaigns[c].organizer_pool <= lamports[CampaignEscrow(c)]]_vars

\* milestone number i (from 0) of budget b can be paid now: its unlock_date
\* has passed, it is not released and the campaign escrow holds its amount
MilestoneDue(b, i) ==
    LET m == budgets[b].milestones[i + 1]
    IN  /\ is_unlocked(m, now)
        /\ CanTransfer(CampaignEscrow(budgets[b].campaign),
                       ReleaseAmount(budgets[b].total_amount, m.release_percentage))

\* the organizer's release_milestone(i) for the campaign of budget b is
\* accepted and acts on budget b
ReleaseAccepted(b, i) ==
    LET c == budgets[b].campaign
    IN  /\ b = BudgetKey(c)
        /\ release_milestone_err(campaigns[c].event, c, campaigns[c].organizer, i,
                                 FALSE) = Ok

\* C37: whenever a Budget is Approved, the original budget or a revision
\* created by revise_budget, the organizer can release each of its milestones
\* once its unlock_date has passed and the campaign escrow holds the amount,
\* so every Approved budget can reach Executed.
C37_ApprovedBudgetReleasable ==
    \A b \in DOMAIN budgets :
        budgets[b].status = "Approved" =>
            \A i \in 0..2 : MilestoneDue(b, i) => ReleaseAccepted(b, i)

\* What holds instead: the milestones of an Approved original budget can be
\* released; a revision is never released and never becomes Executed.
OriginalBudgetReleasable ==
    \A b \in DOMAIN budgets :
        /\ (budgets[b].status = "Approved" /\ b = BudgetKey(budgets[b].campaign)) =>
              \A i \in 0..2 : MilestoneDue(b, i) => ReleaseAccepted(b, i)
        /\ b # BudgetKey(budgets[b].campaign) =>
              /\ budgets[b].status # "Executed"
              /\ \A i \in 1..3 : ~budgets[b].milestones[i].released

\* C38: for every Failed campaign the campaign escrow holds at least
\* total_raised in every reachable state (milestone releases and profit
\* claims debit only the escrow of a campaign that is Funded or Completed, and
\* such a campaign never becomes Failed), so claim_refund of every
\* contribution not yet refunded succeeds, in any order of the claimants.
C38_FailedCampaignRefundable ==
    /\ [](\A c \in DOMAIN campaigns :
            campaigns[c].status = "Failed" =>
                /\ lamports[CampaignEscrow(c)] >= campaigns[c].total_raised
                /\ \A k \in NonRefunded(c) :
                     claim_refund_err(c, contributions[k].contributor) = Ok)
    /\ [][\A c \in DOMAIN campaigns :
            /\ lamports'[CampaignEscrow(c)] < lamports[CampaignEscrow(c)] =>
                  \/ campaigns[c].status \in {"Funded", "Completed"}
                  \/ \E u \in Users : claim_refund(c, u)
            /\ campaigns[c].status \in {"Funded", "Completed"} =>
                  campaigns'[c].status \in {"Funded", "Completed"}]_vars

\* a failed campaign with two backers: one has been refunded, the other's
\* refund is still covered by the escrow
C38_Witness ==
    \E c \in DOMAIN campaigns :
        /\ campaigns[c].status = "Failed"
        /\ campaigns[c].total_contributors = 2
        /\ Cardinality(NonRefunded(c)) = 1
        /\ lamports[CampaignEscrow(c)] = campaigns[c].total_raised
        /\ \A k \in NonRefunded(c) :
             /\ contributions[k].amount > 0
             /\ claim_refund_err(c, contributions[k].contributor) = Ok

-----------------------------------------------------------------------------
(* Winding up a funded campaign: the budget, ticket sales and the
   administration of the event *)

WindupMilestones ==
    <<MilestoneInput(10, 5000, 0), MilestoneInput(10, 3000, 0), MilestoneInput(10, 2000, 0)>>

\* from FundedState: the organizer runs the budget and the event, sells a
\* ticket, and closes, re-creates or updates the event
NextWindup ==
    \/ TickUntil(MaxTime)
    \/ \E e \in EventOrganizers, t \in TierIds :
         create_ticket_tier(e, t, "org", 10, TicketPrice, 2, 0, 0, TRUE)
    \/ \E e \in EventOrganizers, t \in TierIds :
         purchase_ticket("m1", e, TierKey(e, t), TokenAccount("m1", "alice"), "alice")
    \/ \E c \in EventOrganizers, ms \in {WindupMilestones} :
         submit_budget(c, "org", BudgetTotal, 10, ms, 1, TRUE)
    \/ \E c \in EventOrganizers : vote_on_budget(BudgetKey(c), c, "alice", TRUE, TRUE)
    \/ \E c \in EventOrganizers : finalize_budget_vote(BudgetKey(c))
    \/ \E c \in EventOrganizers, i \in 0..2 : release_milestone(c, c, "org", i, TRUE)
    \/ \E c \in EventOrganizers : calculate_distribution(c, c)
    \/ \E e \in EventOrganizers, u \in {"org", "bob"} : close_event(e, u)
    \/ \E o \in EventOrganizers : create_event(o, 10, 2, 3, 2, 500)
    \/ \E e \in EventOrganizers, end_ts \in {{}, {MaxTime}}, treasury \in {{}, {"bob"}} :
         update_event(e, "org", {}, end_ts, {}, treasury)
    \/ \E e \in EventOrganizers, treasury \in {Treasury, "bob"} :
         withdraw_funds(e, "org", treasury, 1)
    \/ \E e \in EventOrganizers :
         /\ lamports[EventEscrow(e)] = 0
         /\ system_transfer("bob", EventEscrow(e), 1 + RentExemptMinimum)

SpecWindup == FundedState /\ [][NextWindup]_vars

\* the accounts calculate_distribution needs for campaign c are there: its
\* event exists and names c as its campaign, the distribution is not done
\* and the profit split fits; the instruction is then accepted at any time
\* after the end of the event
DistributionPossible(c) ==
    LET e == campaigns[c].event
    IN  /\ e \in DOMAIN events
        /\ events[e].campaign = {c}
        /\ ~campaigns[c].distribution_complete
        /\ ~(/\ events[e].ticket_revenue > campaigns[c].total_expenses
             /\ CheckedOverflow((events[e].ticket_revenue
                                   - campaigns[c].total_expenses) * 60))

\* C39: for a Funded campaign calculate_distribution stays possible: no
\* sequence of other operations (close_event, update_event, withdraw_funds,
\* release_milestone, purchase_ticket) takes away what the campaign needs to
\* reach Completed.
C39_DistributionStaysPossible ==
    \A c \in DOMAIN campaigns :
        campaigns[c].status = "Funded" => DistributionPossible(c)

\* What holds instead: once the event of a Funded campaign has been closed
\* the campaign stays Funded for ever: no later step, a new create_event for
\* the same address included, brings back an event that names the campaign,
\* and create_campaign is refused for an event whose campaign exists.
ClosedEventStrandsCampaign ==
    /\ [](\A e \in DOMAIN events, u \in Users, a \in Users, g \in GoalChoices,
             d \in 0..(MaxTime + 1) :
             CampaignKey(e) \in DOMAIN campaigns =>
                 create_campaign_err(e, u, a, g, d) # Ok)
    /\ [][\A c \in DOMAIN campaigns :
            (campaigns[c].status = "Funded" /\ ~DistributionPossible(c)) =>
                /\ campaigns'[c].status = "Funded"
                /\ ~DistributionPossible(c)']_vars

(***************************************************************************)
(* The amount raised after the campaign is finalized *)
(***************************************************************************)

\* C40: a Funded or Completed campaign has total_raised >= funding_goal and
\* no refunded contribution, and no step changes its total_raised; a step
\* that makes a campaign Failed finds total_raised < funding_goal; the
\* total_raised of a Failed campaign never grows.
C40_RaisedAfterFinalize ==
    /\ [](\A c \in DOMAIN campaigns :
            campaigns[c].status \in {"Funded", "Completed"} =>
                /\ campaigns[c].total_raised >= campaigns[c].funding_goal
                /\ \A k \in DOMAIN contributions :
                     contributions[k].campaign = c => ~contributions[k].refunded)
    /\ [][\A c \in DOMAIN campaigns :
            /\ campaigns[c].status \in {"Funded", "Completed"} =>
                  /\ c \in DOMAIN campaigns'
                  /\ campaigns'[c].status \in {"Funded", "Completed"}
                  /\ campaigns'[c].total_raised = campaigns[c].total_raised
                  /\ campaigns'[c].funding_goal = campaigns[c].funding_goal
            /\ (campaigns[c].status # "Failed" /\ campaigns'[c].status = "Failed") =>
                  /\ campaigns[c].status = "Pending"
                  /\ campaigns'[c].total_raised = campaigns[c].total_raised
                  /\ campaigns[c].total_raised < campaigns[c].funding_goal
            /\ campaigns[c].status = "Failed" =>
                  /\ campaigns'[c].status = "Failed"
                  /\ campaigns'[c].total_raised <= campaigns[c].total_raised]_vars

\* a campaign finalized as Failed one lamport short of its goal, with one of
\* its contributions refunded since
C40_Witness ==
    \E c \in DOMAIN campaigns :
        /\ campaigns[c].status = "Failed"
        /\ \E k \in DOMAIN contributions :
             /\ contributions[k].campaign = c
             /\ contributions[k].refunded
             /\ campaigns[c].total_raised + contributions[k].amount
                    = campaigns[c].funding_goal - 1

-----------------------------------------------------------------------------
(* The whole program *)

Next ==
    \/ NextCrowd
    \/ NextTicket
    \/ \E c \in EventOrganizers, u \in Users, amount \in BudgetAmountChoices,
          ms \in MilestoneChoices, oc \in BOOLEAN :
         revise_budget(c, u, amount, 10, ms, 1, oc)
    \/ \E c \in EventOrganizers, u \in Users, approve \in BOOLEAN, oc \in BOOLEAN :
         vote_on_budget(RevisionKey(c, 1), c, u, approve, oc)
    \/ \E c \in EventOrganizers : finalize_budget_vote(RevisionKey(c, 1))
    \/ \E e \in EventOrganizers, u \in Users, uri \in {{}, {10}, {201}},
          end_ts \in {{}, {1}, {5}}, bps \in {{}, {10001}, {250}},
          treasury \in {{}, {"bob"}} :
         update_event(e, u, uri, end_ts, bps, treasury)
    \/ \E e \in EventOrganizers, u \in Users : close_event(e, u)
    \/ \E e \in EventOrganizers, u \in Users, treasury \in {Treasury, "bob"},
          amount \in {1, 7} :
         withdraw_funds(e, u, treasury, amount)

Spec == Init /\ [][Next]_vars

-----------------------------------------------------------------------------
(* Properties of the ticketing instructions *)

\* C1: no ticket is both used and refunded: no mark-used instruction and no
\* transfer succeeds on a refunded ticket, no refund on a used one.
C1_UsedRefundedExclusive ==
    \A m \in DOMAIN tickets : ~(tickets[m].used /\ tickets[m].refunded)

\* C3: a signature-gated check-in happens only if the instruction right
\* before it is an ed25519 verification of a signature by the ticket owner
\* over nonce_hash and nonce_value, and the key and message the program
\* inspected are the ones that verification checked.
C3_CheckinVerifiedOwnerSignature ==
    checkin.ticket # NoKey =>
        checkin.preceding_verified /\ checkin.inspected_verified


====
